---- MODULE Spec2Model ----
(***************************************************************************)
(* The agenda page (frontend/src/pages/AgendaPage.jsx) as a state machine: *)
(* the React state of the page, the requests it has in flight, and the     *)
(* backend store those requests read and write.  One action per handler or *)
(* response.  A handler that awaits a request is two steps: the step that  *)
(* sends the request (and captures the values of its render: ambulatorio,  *)
(* currentDate, initialLoadDone) and the step that receives the response.  *)
(* State updates made in one continuation are batched into one render, and *)
(* the effect on [fetchData] runs with that render.                        *)
(***************************************************************************)
EXTENDS Integers, Sequences, FiniteSets, TLC

\* null or undefined, where a string is expected and where an object is.
NULL == "null"
NONE == [null |-> TRUE]

\* Bounds of the model.
MaxFetches == 2
MaxMutations == 2
MaxAppointments == 3
MaxClosedSlots == 2
MaxNewPatients == 1

\* Two of the fifteen half-hour marks of TIME_SLOTS.
TIME_SLOTS == {"09:00", "09:30"}
TIPI == {"PICC", "MED"}
SITES == {"pta_centro", "villa_ginestre"}

\* The two procedure lists, cut to representatives.
PRESTAZIONI_PICC == {"medicazione_semplice", "irrigazione_catetere"}
PRESTAZIONI_MED == {"medicazione_semplice"}

(***************************************************************************)
(* Dates.  A date is a day number counted from Monday 2018-12-24, so that  *)
(* the days of the model hold a weekend, a year change and a holiday:      *)
(* 5 = Sat 2018-12-29, 6 = Sun 2018-12-30, 7 = Mon 2018-12-31,             *)
(* 8 = Tue 2019-01-01 (holiday), 9 = Wed 2019-01-02.                       *)
(***************************************************************************)
DAYS == 5..9

isWeekend(d) == (d % 7) \in {5, 6}

getFullYear(d) == IF d < 8 THEN 2018 ELSE 2019

\* format(d, "yyyy-MM-dd"): the calendar-date string, as <<year, month, day>>.
format(d) == IF d < 8 THEN <<2018, 12, 24 + d>> ELSE <<2019, 1, d - 7>>

addDays(d, n) == d + n

subDays(d, n) == d - n

\* getNextWorkingDay without the test of the holiday list.
RECURSIVE getNextWorkingDayWeekendsOnly(_, _)
getNextWorkingDayWeekendsOnly(date, holidayList) ==
    IF isWeekend(date)
    THEN getNextWorkingDayWeekendsOnly(addDays(date, 1), holidayList)
    ELSE date

RECURSIVE getNextWorkingDay(_, _)
getNextWorkingDay(date, holidayList) ==
    IF isWeekend(date) \/ format(date) \in holidayList
    THEN getNextWorkingDay(addDays(date, 1), holidayList)
    ELSE date

RECURSIVE SkipPrev(_, _)
SkipPrev(newDate, holidayList) ==
    IF isWeekend(newDate) \/ format(newDate) \in holidayList
    THEN SkipPrev(subDays(newDate, 1), holidayList)
    ELSE newDate

VARIABLES
    today,              \* new Date(): the day the page is opened on
    scope,              \* what a specification lets the user and the backend do
    ambulatorio,        \* useAmbulatorio()
    currentDate, initialLoadDone,
    appointments, patients, holidays, closedSlots,
    loading,
    dialogOpen, selectedSlot, selectedPatient, selectedPrestazioni,
    createPatientDialogOpen, newPatientNome, newPatientCognome,
    editDialogOpen, editingAppointment, editPrestazioni,
    closeAgendaDialogOpen, reopenDialogOpen, closeMode, closeSlotOre, closeSlotTipo,
    clickTimerRef,      \* the chip whose single-click timer is running, if any
    location,           \* the route on screen
    toast,              \* the notice raised by the latest step ("" = none)
    fetches,            \* fetchData batches awaiting their response
    mutations,          \* POST, PUT and DELETE requests awaiting their response
    srvAppointments, srvClosedSlots, srvPatients,
    srvCreated,         \* how many appointments and closure records were ever stored
    srvHolidays,        \* the holiday dates the backend's calendar holds
    \* The patients page (PazientiPage): its lists and its status dialog.
    allPatients, pzLoading,
    statusDialogOpen, selectedPatientForStatus, newStatus, statusReason, statusNotes,
    pzFetches,          \* fetchAllPatients batches awaiting their response
    activeTab, selectionMode, selectedPatients, batchAction, batchStatusDialogOpen,
    deleteDialogOpen, selectedPatientForDelete,
    searchQuery, typeFilter,
    \* The batch dialog of the patients page: its patient rows, its implant rows
    \* and the typeahead of the implant rows.
    batchDialogOpen, batchTab, batchPatients,
    batchImplants, piccPatientResults, activeSearchIndex,
    piccSearches        \* GET /patients/picc/search requests awaiting their response

snapshots == <<appointments, patients, holidays, closedSlots>>
bookingForm == <<dialogOpen, selectedSlot, selectedPatient, selectedPrestazioni>>
createForm == <<createPatientDialogOpen, newPatientNome, newPatientCognome>>
editForm == <<editDialogOpen, editingAppointment, editPrestazioni>>
closeForm == <<closeAgendaDialogOpen, closeMode, closeSlotOre, closeSlotTipo>>
dialogs == <<bookingForm, createForm, editForm, closeForm, reopenDialogOpen>>
statusForm == <<statusDialogOpen, selectedPatientForStatus, newStatus, statusReason,
                statusNotes>>
batchForm == <<activeTab, selectionMode, selectedPatients, batchAction,
               batchStatusDialogOpen>>
deleteForm == <<deleteDialogOpen, selectedPatientForDelete>>
listFilter == <<searchQuery, typeFilter>>
batchCreateForm == <<batchDialogOpen, batchTab, batchPatients>>
implantForm == <<batchImplants, piccPatientResults, activeSearchIndex, piccSearches>>
forms == <<listFilter, batchCreateForm, implantForm>>
pazienti == <<allPatients, pzLoading, statusForm, pzFetches, batchForm, deleteForm, forms>>
\* What no handler of the agenda page touches: the day, the holiday calendar,
\* the scope, and the state of the patients page.
fixed == <<today, srvHolidays, scope, pazienti>>
chipClick == <<clickTimerRef, location>>
view == <<fixed, ambulatorio, currentDate, initialLoadDone, chipClick>>
server == <<srvAppointments, srvClosedSlots, srvPatients, srvCreated>>

vars == <<view, snapshots, loading, dialogs, toast, fetches, mutations, server>>

\* The patients the backend holds when the page is opened.
InitialPatients ==
    { [id |-> 1, nome |-> "Ada", cognome |-> "Rossi", tipo |-> "PICC",
       ambulatorio |-> "pta_centro", status |-> "in_cura"],
      [id |-> 2, nome |-> "Ugo", cognome |-> "Bianchi", tipo |-> "MED",
       ambulatorio |-> "pta_centro", status |-> "in_cura"] }

STATUSES == {"in_cura", "dimesso", "sospeso"}

RemoveAt(s, i) == [j \in 1..(Len(s) - 1) |-> IF j < i THEN s[j] ELSE s[j + 1]]

\* JavaScript's !v for the values a record field takes.
Falsy(v) == v \in {NULL, ""}

\* GET /calendar/holidays?anno: the holiday dates of one year.
SrvHolidays(anno) == {h \in srvHolidays : h[1] = anno}

\* GET /appointments?ambulatorio&data
SrvGetAppointments(amb, dateStr) ==
    {a \in srvAppointments : a.ambulatorio = amb /\ a.data = dateStr}

\* GET /patients?ambulatorio&status=in_cura
SrvGetPatients(amb) ==
    {p \in srvPatients : p.ambulatorio = amb /\ p.status = "in_cura"}

\* GET /patients?ambulatorio&status
SrvGetPatientsOf(amb, status) ==
    {p \in srvPatients : p.ambulatorio = amb /\ p.status = status}

\* GET /closed-slots?ambulatorio&data, in the order the records were created
SrvGetClosedSlots(amb, dateStr) ==
    SelectSeq(srvClosedSlots, LAMBDA cs : cs.ambulatorio = amb /\ cs.data = dateStr)

\* The values of the render a handler or a fetchData was created in.
Render(amb, date, init) ==
    [ambulatorio |-> amb, currentDate |-> date, initialLoadDone |-> init]

ThisRender == Render(ambulatorio, currentDate, initialLoadDone)

\* A call of a render's fetchData; [then] is the patient handleCreatePatient
\* selects once its "await fetchData()" returns.
FetchCall(render, then) == [render |-> render, then |-> then]

\* A request sent by the handler [kind] of a render, with its body.
Request(kind, body) == [kind |-> kind, render |-> ThisRender, body |-> body]

\* The page that is mounted: the patients page when the scope names one of its
\* controls, else the agenda.
PazientiMounted ==
    scope.panels \cap {"pazienti", "batch", "delete", "batchCreate", "implants"} # {}

\* The row the batch dialog starts with, and the row "Aggiungi Riga" appends.
EmptyBatchPatient ==
    [nome |-> "", cognome |-> "", tipo |-> "", tipo_impianto |-> "",
     data_inserimento_impianto |-> ""]

\* Patient ids are numbers from 1; NoPatientId is the empty patient_id of a row.
NoPatientId == 0

\* Rows are numbered from 1; NoIndex is the null of activeSearchIndex.
NoIndex == 0

EmptyBatchImplant ==
    [patient_id |-> NoPatientId, patient_name |-> "", tipo_impianto |-> "",
     data_inserimento |-> ""]

\* The pages as they are constructed; the one that is mounted has run its
\* effect and awaits its first fetch.
InitPage ==
    /\ allPatients = [status \in STATUSES |-> {}]
    /\ pzLoading = TRUE
    /\ statusDialogOpen = FALSE
    /\ selectedPatientForStatus = NONE
    /\ newStatus = ""
    /\ statusReason = ""
    /\ statusNotes = ""
    /\ activeTab = "in_cura"
    /\ selectionMode = FALSE
    /\ selectedPatients = {}
    /\ batchAction = NULL
    /\ batchStatusDialogOpen = FALSE
    /\ deleteDialogOpen = FALSE
    /\ selectedPatientForDelete = NONE
    /\ searchQuery = ""
    /\ typeFilter = "all"
    /\ batchDialogOpen = FALSE
    /\ batchTab = "pazienti"
    /\ batchPatients = <<EmptyBatchPatient>>
    /\ batchImplants = <<EmptyBatchImplant>>
    /\ piccPatientResults = {}
    /\ activeSearchIndex = NoIndex
    /\ piccSearches = <<>>
    /\ pzFetches = IF PazientiMounted THEN <<ambulatorio>> ELSE <<>>
    /\ currentDate = today
    /\ initialLoadDone = FALSE
    /\ clickTimerRef = NONE
    /\ location = IF PazientiMounted THEN "/pazienti" ELSE "/agenda"
    /\ appointments = {}
    /\ patients = {}
    /\ holidays = {}
    /\ closedSlots = <<>>
    /\ loading = TRUE
    /\ dialogOpen = FALSE
    /\ selectedSlot = NONE
    /\ selectedPatient = NONE
    /\ selectedPrestazioni = {}
    /\ createPatientDialogOpen = FALSE
    /\ newPatientNome = ""
    /\ newPatientCognome = ""
    /\ editDialogOpen = FALSE
    /\ editingAppointment = NONE
    /\ editPrestazioni = {}
    /\ closeAgendaDialogOpen = FALSE
    /\ reopenDialogOpen = FALSE
    /\ closeMode = "slot"
    /\ closeSlotOre = <<>>
    /\ closeSlotTipo = "both"
    /\ toast = ""
    /\ fetches = IF PazientiMounted THEN <<>>
                 ELSE <<FetchCall(Render(ambulatorio, today, FALSE), NONE)>>
    /\ mutations = <<>>

\* The scope of a behaviour: the controls the user works with (the grid's cells,
\* the chips, the "Chiudi Agenda" and "Gestisci Chiusure" buttons), the hours and
\* procedures the user picks among, how many mutating requests can be unanswered
\* at once, and how many appointments and closure records the backend stores in
\* all.
Scope(panels, ore, items, pending, nAppointments, nClosedSlots) ==
    [panels |-> panels, ore |-> ore, prestazioni |-> items, pending |-> pending,
     appointments |-> nAppointments, closedSlots |-> nClosedSlots]

(***************************************************************************)
(* The queries of a render over its snapshots.                             *)
(***************************************************************************)
\* isHoliday without the weekend test.
isHolidayListOnly(date) == format(date) \in holidays

isHoliday(date) == isWeekend(date) \/ format(date) \in holidays

getAppointmentsForSlot(ora, tipo) ==
    {a \in appointments : a.ora = ora /\ a.tipo = tipo}

\* ClosedSlotMatches without the branch of the records that close one type
\* at every hour.
ClosedSlotMatchesNoTypeOnly(cs, ora, tipo) ==
    \/ Falsy(cs.ora) /\ Falsy(cs.tipo)
    \/ cs.ora = ora /\ Falsy(cs.tipo)
    \/ cs.ora = ora /\ cs.tipo = tipo

\* The callback of closedSlots.some / closedSlots.find.
ClosedSlotMatches(cs, ora, tipo) ==
    \/ Falsy(cs.ora) /\ Falsy(cs.tipo)
    \/ Falsy(cs.ora) /\ cs.tipo = tipo
    \/ cs.ora = ora /\ Falsy(cs.tipo)
    \/ cs.ora = ora /\ cs.tipo = tipo

isSlotClosedIn(records, ora, tipo) ==
    \E k \in 1..Len(records) : ClosedSlotMatches(records[k], ora, tipo)

isSlotClosed(ora, tipo) == isSlotClosedIn(closedSlots, ora, tipo)

\* The callback of closedSlots.find in getClosedSlotInfo.
ClosedSlotInfoMatches(cs, ora, tipo) ==
    IF Falsy(cs.ora) /\ Falsy(cs.tipo) THEN TRUE
    ELSE IF Falsy(cs.ora) /\ cs.tipo = tipo THEN TRUE
    ELSE IF cs.ora = ora /\ Falsy(cs.tipo) THEN TRUE
    ELSE IF cs.ora = ora /\ cs.tipo = tipo THEN TRUE
    ELSE FALSE

\* getClosedSlotInfo as Array.prototype.findLast would have it.
getClosedSlotInfoLast(ora, tipo) ==
    LET found == {k \in 1..Len(closedSlots) : ClosedSlotInfoMatches(closedSlots[k], ora, tipo)}
    IN  IF found = {} THEN NONE
        ELSE closedSlots[CHOOSE k \in found : \A j \in found : j <= k]

\* closedSlots.find: the element of the lowest index the callback accepts, or
\* undefined.
getClosedSlotInfo(ora, tipo) ==
    LET found == {k \in 1..Len(closedSlots) : ClosedSlotInfoMatches(closedSlots[k], ora, tipo)}
    IN  IF found = {} THEN NONE
        ELSE closedSlots[CHOOSE k \in found : \A j \in found : k <= j]

\* isDayClosed: some record closes every hour and every type.
isDayClosed ==
    \E k \in 1..Len(closedSlots) : Falsy(closedSlots[k].ora) /\ Falsy(closedSlots[k].tipo)

isVillaGinestre == ambulatorio = "villa_ginestre"

\* The page renders its grid and dialogs only when loading is false.
PageShown == ~loading /\ location = "/agenda"

\* The dialogs are modal: the grid and the header take clicks when none is open,
\* and the quick patient dialog lies over the booking dialog.
NoDialog ==
    ~(dialogOpen \/ createPatientDialogOpen \/ editDialogOpen
      \/ closeAgendaDialogOpen \/ reopenDialogOpen)

OnGrid == PageShown /\ NoDialog

InDialog(open) == PageShown /\ open /\ ~createPatientDialogOpen

(***************************************************************************)
(* fetchData and the effect that runs it.                                  *)
(***************************************************************************)
\* FetchDataOk with the request's site and date read when the response is
\* applied instead of when the request is sent.
FetchDataOkOfSelectedDay(i) ==
    LET f == fetches[i]
        r == f.render
        rest == RemoveAt(fetches, i)
        dateStr == format(currentDate)
        holidaysRes == SrvHolidays(getFullYear(currentDate))
        workingDay == getNextWorkingDay(today, holidaysRes)
        setDate == ~r.initialLoadDone /\ format(workingDay) # dateStr
        rerun == setDate \/ ~initialLoadDone
    IN  /\ appointments' = SrvGetAppointments(ambulatorio, dateStr)
        /\ patients' = SrvGetPatients(ambulatorio)
        /\ holidays' = holidaysRes
        /\ closedSlots' = SrvGetClosedSlots(ambulatorio, dateStr)
        /\ currentDate' = IF setDate THEN workingDay ELSE currentDate
        /\ currentDate' \in DAYS
        /\ initialLoadDone' = TRUE
        /\ fetches' = IF rerun
                      THEN Append(rest, FetchCall(Render(ambulatorio, currentDate', TRUE), NONE))
                      ELSE rest
        /\ loading' = rerun
        /\ selectedPatient' = IF f.then = NONE THEN selectedPatient ELSE f.then
        /\ toast' = ""
        /\ UNCHANGED <<fixed, chipClick, ambulatorio, dialogOpen, selectedSlot,
                       selectedPrestazioni, createForm, editForm, closeForm,
                       reopenDialogOpen, mutations, server>>

\* The response of a fetchData batch: all four requests succeeded.  The four
\* setters, the initial-date adjustment and finally's setLoading(false) make
\* one render; when currentDate or initialLoadDone changed, the effect calls
\* the new fetchData.
\* FetchDataOk with the closures of the batch left out.
FetchDataOkKeepsClosures(i) ==
    LET f == fetches[i]
        r == f.render
        rest == RemoveAt(fetches, i)
        dateStr == format(r.currentDate)
        holidaysRes == SrvHolidays(getFullYear(r.currentDate))
        workingDay == getNextWorkingDay(today, holidaysRes)
        setDate == ~r.initialLoadDone /\ format(workingDay) # dateStr
        rerun == setDate \/ ~initialLoadDone
    IN  /\ appointments' = SrvGetAppointments(r.ambulatorio, dateStr)
        /\ patients' = SrvGetPatients(r.ambulatorio)
        /\ holidays' = holidaysRes
        /\ closedSlots' = closedSlots
        /\ currentDate' = IF setDate THEN workingDay ELSE currentDate
        /\ currentDate' \in DAYS
        /\ initialLoadDone' = TRUE
        /\ fetches' = IF rerun
                      THEN Append(rest, FetchCall(Render(ambulatorio, currentDate', TRUE), NONE))
                      ELSE rest
        /\ loading' = rerun
        /\ selectedPatient' = IF f.then = NONE THEN selectedPatient ELSE f.then
        /\ toast' = ""
        /\ UNCHANGED <<fixed, chipClick, ambulatorio, dialogOpen, selectedSlot,
                       selectedPrestazioni, createForm, editForm, closeForm,
                       reopenDialogOpen, mutations, server>>

FetchDataOk(i) ==
    LET f == fetches[i]
        r == f.render
        rest == RemoveAt(fetches, i)
        dateStr == format(r.currentDate)
        holidaysRes == SrvHolidays(getFullYear(r.currentDate))
        workingDay == getNextWorkingDay(today, holidaysRes)
        setDate == ~r.initialLoadDone /\ format(workingDay) # dateStr
        rerun == setDate \/ ~initialLoadDone
    IN  /\ appointments' = SrvGetAppointments(r.ambulatorio, dateStr)
        /\ patients' = SrvGetPatients(r.ambulatorio)
        /\ holidays' = holidaysRes
        /\ closedSlots' = SrvGetClosedSlots(r.ambulatorio, dateStr)
        /\ currentDate' = IF setDate THEN workingDay ELSE currentDate
        /\ currentDate' \in DAYS
        /\ initialLoadDone' = TRUE
        /\ fetches' = IF rerun
                      THEN Append(rest, FetchCall(Render(ambulatorio, currentDate', TRUE), NONE))
                      ELSE rest
        /\ loading' = rerun
        /\ selectedPatient' = IF f.then = NONE THEN selectedPatient ELSE f.then
        /\ toast' = ""
        /\ UNCHANGED <<fixed, chipClick, ambulatorio, dialogOpen, selectedSlot,
                       selectedPrestazioni, createForm, editForm, closeForm,
                       reopenDialogOpen, mutations, server>>

\* The response of a fetchData batch: one of the four requests was rejected.
\* FetchDataFail with a catch branch that calls fetchData again.
FetchDataFailRetry(i, code) ==
    LET f == fetches[i]
    IN  /\ fetches' = Append(RemoveAt(fetches, i), f)
        /\ loading' = TRUE
        /\ toast' = IF code = "ERR_NETWORK" THEN "Errore di connessione al server" ELSE ""
        /\ selectedPatient' = IF f.then = NONE THEN selectedPatient ELSE f.then
        /\ UNCHANGED <<view, snapshots, dialogOpen, selectedSlot, selectedPrestazioni,
                       createForm, editForm, closeForm, reopenDialogOpen, mutations, server>>

FetchDataFail(i, code) ==
    LET f == fetches[i]
    IN  /\ fetches' = RemoveAt(fetches, i)
        /\ loading' = FALSE
        /\ toast' = IF code = "ERR_NETWORK" THEN "Errore di connessione al server" ELSE ""
        /\ selectedPatient' = IF f.then = NONE THEN selectedPatient ELSE f.then
        /\ UNCHANGED <<view, snapshots, dialogOpen, selectedSlot, selectedPrestazioni,
                       createForm, editForm, closeForm, reopenDialogOpen, mutations, server>>

\* The site is changed in the application header: the effect runs fetchData.
\* The page on screen runs its fetch again: fetchData and fetchAllPatients
\* both depend on ambulatorio.
ChangeAmbulatorio(amb) ==
    /\ amb # ambulatorio
    /\ ambulatorio' = amb
    /\ IF PazientiMounted
       THEN /\ Len(pzFetches) < MaxFetches
            /\ pzFetches' = Append(pzFetches, amb)
            /\ pzLoading' = TRUE
            /\ UNCHANGED <<fetches, loading>>
       ELSE /\ Len(fetches) < MaxFetches
            /\ fetches' = Append(fetches,
                  FetchCall(Render(amb, currentDate, initialLoadDone), NONE))
            /\ loading' = TRUE
            /\ UNCHANGED <<pzFetches, pzLoading>>
    /\ toast' = ""
    /\ UNCHANGED <<today, srvHolidays, scope, allPatients, statusForm, batchForm, deleteForm,
                   forms, currentDate, initialLoadDone, chipClick, snapshots, dialogs, mutations,
                   server>>

\* setCurrentDate(d) from a control of the page header, and the effect's fetchData.
SetCurrentDate(d) ==
    /\ OnGrid
    /\ d \in DAYS
    /\ Len(fetches) < MaxFetches
    /\ currentDate' = d
    /\ fetches' = Append(fetches, FetchCall(Render(ambulatorio, d, initialLoadDone), NONE))
    /\ loading' = TRUE
    /\ toast' = ""
    /\ UNCHANGED <<fixed, chipClick, ambulatorio, initialLoadDone, snapshots, dialogs,
                   mutations, server>>

goToToday == SetCurrentDate(getNextWorkingDay(today, holidays))

goToPrevDay == SetCurrentDate(SkipPrev(subDays(currentDate, 1), holidays))

goToNextDay == SetCurrentDate(getNextWorkingDay(addDays(currentDate, 1), holidays))

\* The calendar popover: any day that is not a weekend day can be picked.
CalendarSelect(date) == ~isWeekend(date) /\ SetCurrentDate(date)

(***************************************************************************)
(* The grid and the booking dialog.                                        *)
(***************************************************************************)
\* SlotClickOutcome with the full-slot check ahead of the closed-slot check.
SlotClickOutcomeFullFirst(ora, tipo) ==
    IF isHoliday(currentDate) THEN "none"
    ELSE IF Cardinality(getAppointmentsForSlot(ora, tipo)) >= 2 THEN "full"
    ELSE IF isSlotClosed(ora, tipo) THEN "closures"
    ELSE "booking"

\* What handleSlotClick does, by the order of its checks.
SlotClickOutcome(ora, tipo) ==
    IF isHoliday(currentDate) THEN "none"
    ELSE IF isSlotClosed(ora, tipo) THEN "closures"
    ELSE IF Cardinality(getAppointmentsForSlot(ora, tipo)) >= 2 THEN "full"
    ELSE "booking"

handleSlotClick(ora, tipo) ==
    /\ OnGrid
    /\ "cells" \in scope.panels
    /\ tipo = "MED" => ~isVillaGinestre
    /\ LET outcome == SlotClickOutcome(ora, tipo)
       IN  /\ reopenDialogOpen' = (outcome = "closures")
           /\ toast' = IF outcome = "full" THEN "Slot pieno (max 2 pazienti)" ELSE ""
           /\ IF outcome = "booking"
              THEN /\ selectedSlot' = [ora |-> ora, tipo |-> tipo]
                   /\ selectedPatient' = NONE
                   /\ selectedPrestazioni' = {}
                   /\ dialogOpen' = TRUE
              ELSE UNCHANGED bookingForm
    /\ UNCHANGED <<view, snapshots, loading, createForm, editForm, closeForm,
                   fetches, mutations, server>>

\* The procedure list the booking dialog offers.
prestazioni == IF selectedSlot # NONE /\ selectedSlot.tipo = "PICC"
               THEN PRESTAZIONI_PICC ELSE PRESTAZIONI_MED

\* A patient of the search results (filteredPatients) is clicked.
handlePatientSelect(patient) ==
    /\ InDialog(dialogOpen)
    /\ patient \in patients
    /\ patient.tipo = selectedSlot.tipo \/ patient.tipo = "PICC_MED"
    /\ selectedPatient' = patient
    /\ selectedPrestazioni' =
          IF selectedSlot.tipo = "PICC" /\ patient.tipo \in {"PICC", "PICC_MED"}
          THEN {"medicazione_semplice", "irrigazione_catetere"}
          ELSE selectedPrestazioni
    /\ toast' = ""
    /\ UNCHANGED <<view, snapshots, loading, dialogOpen, selectedSlot, createForm,
                   editForm, closeForm, reopenDialogOpen, fetches, mutations, server>>

\* The X beside the selected patient.
ClearSelectedPatient ==
    /\ InDialog(dialogOpen)
    /\ selectedPatient # NONE
    /\ selectedPatient' = NONE
    /\ toast' = ""
    /\ UNCHANGED <<view, snapshots, loading, dialogOpen, selectedSlot, selectedPrestazioni,
                   createForm, editForm, closeForm, reopenDialogOpen, fetches, mutations,
                   server>>

handlePrestazioneToggle(prestazioneId) ==
    /\ InDialog(dialogOpen)
    /\ prestazioneId \in prestazioni
    /\ selectedPrestazioni' =
          IF prestazioneId \in selectedPrestazioni
          THEN selectedPrestazioni \ {prestazioneId}
          ELSE selectedPrestazioni \cup {prestazioneId}
    /\ toast' = ""
    /\ UNCHANGED <<view, snapshots, loading, dialogOpen, selectedSlot, selectedPatient,
                   createForm, editForm, closeForm, reopenDialogOpen, fetches, mutations,
                   server>>

\* Annulla, or the dialog's own close control.
CloseBookingDialog ==
    /\ InDialog(dialogOpen)
    /\ dialogOpen' = FALSE
    /\ toast' = ""
    /\ UNCHANGED <<view, snapshots, loading, selectedSlot, selectedPatient,
                   selectedPrestazioni, createForm, editForm, closeForm, reopenDialogOpen,
                   fetches, mutations, server>>

handleAddAppointment ==
    /\ InDialog(dialogOpen)
    /\ IF selectedPatient = NONE
       THEN toast' = "Seleziona un paziente" /\ UNCHANGED mutations
       ELSE IF selectedPrestazioni = {}
       THEN toast' = "Seleziona almeno una prestazione" /\ UNCHANGED mutations
       ELSE /\ Len(mutations) < scope.pending
            /\ toast' = ""
            /\ mutations' = Append(mutations, Request("addAppointment",
                  [patient_id |-> selectedPatient.id, ambulatorio |-> ambulatorio,
                   data |-> format(currentDate), ora |-> selectedSlot.ora,
                   tipo |-> selectedSlot.tipo, prestazioni |-> selectedPrestazioni]))
    /\ UNCHANGED <<view, snapshots, loading, dialogs, fetches, server>>

(***************************************************************************)
(* Responses of the mutating requests.  On success every handler calls the *)
(* fetchData of the render it was created in.                              *)
(***************************************************************************)
Pending(i, kind) == i <= Len(mutations) /\ mutations[i].kind = kind

\* fetchData(), called by the continuation of request i.
Refetch(i, then) ==
    /\ Len(fetches) < MaxFetches
    /\ fetches' = Append(fetches, FetchCall(mutations[i].render, then))
    /\ loading' = TRUE
    /\ mutations' = RemoveAt(mutations, i)

\* Rejected with the dialogs closed as on success.
RejectedClosingDialogs(i, notice) ==
    /\ mutations' = RemoveAt(mutations, i)
    /\ toast' = notice
    /\ dialogOpen' = FALSE
    /\ createPatientDialogOpen' = FALSE
    /\ editDialogOpen' = FALSE
    /\ closeAgendaDialogOpen' = FALSE
    /\ reopenDialogOpen' = FALSE
    /\ UNCHANGED <<view, snapshots, loading, selectedSlot, selectedPatient,
                   selectedPrestazioni, newPatientNome, newPatientCognome,
                   editingAppointment, editPrestazioni, closeMode, closeSlotOre,
                   closeSlotTipo, fetches, server>>

\* The catch branch of a handler: a notice and nothing else.
Rejected(i, notice) ==
    /\ mutations' = RemoveAt(mutations, i)
    /\ toast' = notice
    /\ UNCHANGED <<view, snapshots, loading, dialogs, fetches, server>>

\* error.response?.data?.detail || fallback
DetailOr(detail, fallback) == IF Falsy(detail) THEN fallback ELSE detail

\* The error bodies a rejecting backend sends: none, or a message.
Details == {NULL, "Slot non disponibile"}

\* POST /appointments stores what it receives.
SrvAddAppointment(body) ==
    srvAppointments \cup
      { [id |-> srvCreated.appointments + 1, ambulatorio |-> body.ambulatorio,
         data |-> body.data, ora |-> body.ora, tipo |-> body.tipo,
         patient_id |-> body.patient_id, prestazioni |-> body.prestazioni,
         stato |-> "da_fare"] }

\* AddAppointmentOk with the new appointment put into the snapshot at once.
AddAppointmentOkOptimistic(i) ==
    /\ Pending(i, "addAppointment")
    /\ srvCreated.appointments < scope.appointments
    /\ srvAppointments' = SrvAddAppointment(mutations[i].body)
    /\ srvCreated' = [srvCreated EXCEPT !.appointments = @ + 1]
    /\ appointments' = appointments \cup (srvAppointments' \ srvAppointments)
    /\ toast' = "Appuntamento aggiunto"
    /\ dialogOpen' = FALSE
    /\ Refetch(i, NONE)
    /\ UNCHANGED <<view, patients, holidays, closedSlots, selectedSlot, selectedPatient,
                   selectedPrestazioni, createForm, editForm, closeForm, reopenDialogOpen,
                   srvClosedSlots, srvPatients>>

AddAppointmentOk(i) ==
    /\ Pending(i, "addAppointment")
    /\ srvCreated.appointments < scope.appointments
    /\ srvAppointments' = SrvAddAppointment(mutations[i].body)
    /\ srvCreated' = [srvCreated EXCEPT !.appointments = @ + 1]
    /\ toast' = "Appuntamento aggiunto"
    /\ dialogOpen' = FALSE
    /\ Refetch(i, NONE)
    /\ UNCHANGED <<view, snapshots, selectedSlot, selectedPatient, selectedPrestazioni,
                   createForm, editForm, closeForm, reopenDialogOpen, srvClosedSlots,
                   srvPatients>>

AddAppointmentFail(i, detail) ==
    /\ Pending(i, "addAppointment")
    /\ Rejected(i, DetailOr(detail, "Errore nell'aggiunta"))

(***************************************************************************)
(* The quick patient dialog, opened from the booking dialog.               *)
(***************************************************************************)
OpenCreatePatientDialog ==
    /\ InDialog(dialogOpen)
    /\ "newPatient" \in scope.panels
    /\ createPatientDialogOpen' = TRUE
    /\ toast' = ""
    /\ UNCHANGED <<view, snapshots, loading, bookingForm, newPatientNome,
                   newPatientCognome, editForm, closeForm, reopenDialogOpen, fetches,
                   mutations, server>>

InCreateDialog == PageShown /\ createPatientDialogOpen

SetNewPatientNome(text) ==
    /\ InCreateDialog
    /\ text # newPatientNome
    /\ newPatientNome' = text
    /\ toast' = ""
    /\ UNCHANGED <<view, snapshots, loading, bookingForm, createPatientDialogOpen,
                   newPatientCognome, editForm, closeForm, reopenDialogOpen, fetches,
                   mutations, server>>

SetNewPatientCognome(text) ==
    /\ InCreateDialog
    /\ text # newPatientCognome
    /\ newPatientCognome' = text
    /\ toast' = ""
    /\ UNCHANGED <<view, snapshots, loading, bookingForm, createPatientDialogOpen,
                   newPatientNome, editForm, closeForm, reopenDialogOpen, fetches,
                   mutations, server>>

CloseCreatePatientDialog ==
    /\ InCreateDialog
    /\ createPatientDialogOpen' = FALSE
    /\ toast' = ""
    /\ UNCHANGED <<view, snapshots, loading, bookingForm, newPatientNome,
                   newPatientCognome, editForm, closeForm, reopenDialogOpen, fetches,
                   mutations, server>>

handleCreatePatient ==
    /\ InCreateDialog
    /\ IF Falsy(newPatientNome) \/ Falsy(newPatientCognome)
       THEN toast' = "Inserisci nome e cognome" /\ UNCHANGED mutations
       ELSE /\ Len(mutations) < scope.pending
            /\ toast' = ""
            /\ mutations' = Append(mutations, Request("createPatient",
                  [nome |-> newPatientNome, cognome |-> newPatientCognome,
                   tipo |-> IF selectedSlot # NONE THEN selectedSlot.tipo ELSE "PICC",
                   ambulatorio |-> ambulatorio]))
    /\ UNCHANGED <<view, snapshots, loading, dialogs, fetches, server>>

\* POST /patients answers with the patient it stored.
SrvNewPatient(body) ==
    [id |-> Cardinality(srvPatients) + 1, nome |-> body.nome, cognome |-> body.cognome,
     tipo |-> body.tipo, ambulatorio |-> body.ambulatorio, status |-> "in_cura"]

\* The new patient is selected once "await fetchData()" has returned.
CreatePatientOk(i) ==
    /\ Pending(i, "createPatient")
    /\ Cardinality(srvPatients) < Cardinality(InitialPatients) + MaxNewPatients
    /\ srvPatients' = srvPatients \cup {SrvNewPatient(mutations[i].body)}
    /\ toast' = "Paziente creato"
    /\ createPatientDialogOpen' = FALSE
    /\ newPatientNome' = ""
    /\ newPatientCognome' = ""
    /\ Refetch(i, SrvNewPatient(mutations[i].body))
    /\ UNCHANGED <<view, snapshots, bookingForm, editForm, closeForm, reopenDialogOpen,
                   srvAppointments, srvClosedSlots, srvCreated>>

CreatePatientFail(i, detail) ==
    /\ Pending(i, "createPatient")
    /\ Rejected(i, DetailOr(detail, "Errore nella creazione"))

(***************************************************************************)
(* The edit dialog of an appointment.                                      *)
(***************************************************************************)
\* handleOpenEditDialog, from the chip of an appointment shown in the grid.
handleOpenEditDialog(appointment) ==
    /\ OnGrid
    /\ "chips" \in scope.panels
    /\ appointment \in appointments
    /\ appointment.tipo = "MED" => ~isVillaGinestre
    /\ ~isSlotClosed(appointment.ora, appointment.tipo)
    /\ editingAppointment' = appointment
    /\ editPrestazioni' = appointment.prestazioni
    /\ editDialogOpen' = TRUE
    /\ toast' = ""
    /\ UNCHANGED <<view, snapshots, loading, bookingForm, createForm, closeForm,
                   reopenDialogOpen, fetches, mutations, server>>

\* goToPatientFolder: navigate(`/pazienti/${patientId}`)
PatientFolder(patientId) == "/pazienti/" \o ToString(patientId)

\* A click on a patient chip of the grid.  clickTimerRef is one ref of the
\* page: with a timer running the click is taken as the second of a double
\* click, whichever chip started the timer.
handlePatientChipClick(apt) ==
    /\ OnGrid
    /\ "chips" \in scope.panels
    /\ apt \in appointments
    /\ apt.tipo = "MED" => ~isVillaGinestre
    /\ ~isSlotClosed(apt.ora, apt.tipo)
    /\ IF clickTimerRef # NONE
       THEN /\ clickTimerRef' = NONE
            /\ location' = PatientFolder(apt.patient_id)
       ELSE /\ clickTimerRef' = apt
            /\ UNCHANGED location
    /\ toast' = ""
    /\ UNCHANGED <<fixed, ambulatorio, currentDate, initialLoadDone, snapshots, loading,
                   dialogs, fetches, mutations, server>>

\* 250 ms after the click the timer's callback opens the edit dialog of the
\* appointment the click was on.
ClickTimerFires ==
    /\ clickTimerRef # NONE
    /\ clickTimerRef' = NONE
    /\ editingAppointment' = clickTimerRef
    /\ editPrestazioni' = clickTimerRef.prestazioni
    /\ editDialogOpen' = TRUE
    /\ toast' = ""
    /\ UNCHANGED <<fixed, ambulatorio, currentDate, initialLoadDone, location, snapshots,
                   loading, bookingForm, createForm, closeForm, reopenDialogOpen, fetches,
                   mutations, server>>

CloseEditDialog ==
    /\ InDialog(editDialogOpen)
    /\ editDialogOpen' = FALSE
    /\ toast' = ""
    /\ UNCHANGED <<view, snapshots, loading, bookingForm, createForm, editingAppointment,
                   editPrestazioni, closeForm, reopenDialogOpen, fetches, mutations, server>>

handleEditPrestazioneToggle(prestazioneId) ==
    /\ InDialog(editDialogOpen)
    /\ prestazioneId \in (IF editingAppointment # NONE /\ editingAppointment.tipo = "PICC"
                          THEN PRESTAZIONI_PICC ELSE PRESTAZIONI_MED)
    /\ editPrestazioni' =
          IF prestazioneId \in editPrestazioni
          THEN editPrestazioni \ {prestazioneId}
          ELSE editPrestazioni \cup {prestazioneId}
    /\ toast' = ""
    /\ UNCHANGED <<view, snapshots, loading, bookingForm, createForm, editDialogOpen,
                   editingAppointment, closeForm, reopenDialogOpen, fetches, mutations,
                   server>>

\* A handler of the edit dialog that sends one request about editingAppointment.
SendFromEditDialog(kind, body) ==
    /\ Len(mutations) < scope.pending
    /\ toast' = ""
    /\ mutations' = Append(mutations, Request(kind, body))

\* handleChangeStato that leaves a status once set alone.
handleChangeStatoLocked(newStato) ==
    /\ InDialog(editDialogOpen)
    /\ IF editingAppointment = NONE \/ editingAppointment.stato # "da_fare"
       THEN toast' = "" /\ UNCHANGED mutations
       ELSE SendFromEditDialog("changeStato",
               [id |-> editingAppointment.id, stato |-> newStato])
    /\ UNCHANGED <<view, snapshots, loading, dialogs, fetches, server>>

handleChangeStato(newStato) ==
    /\ InDialog(editDialogOpen)
    /\ IF editingAppointment = NONE
       THEN toast' = "" /\ UNCHANGED mutations
       ELSE SendFromEditDialog("changeStato",
               [id |-> editingAppointment.id, stato |-> newStato])
    /\ UNCHANGED <<view, snapshots, loading, dialogs, fetches, server>>

\* handleSavePrestazioni without its check of the procedure list.
handleSavePrestazioniUnchecked ==
    /\ InDialog(editDialogOpen)
    /\ IF editingAppointment = NONE
       THEN toast' = "Seleziona almeno una prestazione" /\ UNCHANGED mutations
       ELSE SendFromEditDialog("savePrestazioni",
               [id |-> editingAppointment.id, prestazioni |-> editPrestazioni])
    /\ UNCHANGED <<view, snapshots, loading, dialogs, fetches, server>>

handleSavePrestazioni ==
    /\ InDialog(editDialogOpen)
    /\ IF editingAppointment = NONE \/ editPrestazioni = {}
       THEN toast' = "Seleziona almeno una prestazione" /\ UNCHANGED mutations
       ELSE SendFromEditDialog("savePrestazioni",
               [id |-> editingAppointment.id, prestazioni |-> editPrestazioni])
    /\ UNCHANGED <<view, snapshots, loading, dialogs, fetches, server>>

\* Elimina: handleDeleteAppointment(editingAppointment?.id); 0 stands for undefined.
handleDeleteAppointment ==
    /\ InDialog(editDialogOpen)
    /\ SendFromEditDialog("deleteAppointment",
          [id |-> IF editingAppointment = NONE THEN 0 ELSE editingAppointment.id])
    /\ UNCHANGED <<view, snapshots, loading, dialogs, fetches, server>>

\* The edit dialog's three handlers share their success continuation.
EditDone(i) ==
    /\ editDialogOpen' = FALSE
    /\ editingAppointment' = NONE
    /\ Refetch(i, NONE)
    /\ UNCHANGED <<view, snapshots, bookingForm, createForm, editPrestazioni, closeForm,
                   reopenDialogOpen, srvClosedSlots, srvPatients, srvCreated>>

SrvHasAppointment(id) == \E a \in srvAppointments : a.id = id

\* PUT /appointments/{id}: a partial update of the stored appointment.
SrvUpdateAppointment(id, field, value) ==
    {IF a.id = id THEN [a EXCEPT ![field] = value] ELSE a : a \in srvAppointments}

\* DELETE /appointments/{id}
SrvDeleteAppointment(id) == {a \in srvAppointments : a.id # id}

ChangeStatoOk(i) ==
    /\ Pending(i, "changeStato")
    /\ SrvHasAppointment(mutations[i].body.id)
    /\ srvAppointments' =
          SrvUpdateAppointment(mutations[i].body.id, "stato", mutations[i].body.stato)
    /\ toast' = IF mutations[i].body.stato = "effettuato"
                THEN "Segnato come effettuato" ELSE "Segnato come non presentato"
    /\ EditDone(i)

\* The catch branch does not read the response.
ChangeStatoFail(i, detail) ==
    /\ Pending(i, "changeStato")
    /\ Rejected(i, "Errore nel cambio stato")

SavePrestazioniOk(i) ==
    /\ Pending(i, "savePrestazioni")
    /\ SrvHasAppointment(mutations[i].body.id)
    /\ srvAppointments' =
          SrvUpdateAppointment(mutations[i].body.id, "prestazioni",
                               mutations[i].body.prestazioni)
    /\ toast' = "Prestazioni aggiornate"
    /\ EditDone(i)

\* The catch branch does not read the response.
SavePrestazioniFail(i, detail) ==
    /\ Pending(i, "savePrestazioni")
    /\ Rejected(i, "Errore nell'aggiornamento")

DeleteAppointmentOk(i) ==
    /\ Pending(i, "deleteAppointment")
    /\ SrvHasAppointment(mutations[i].body.id)
    /\ srvAppointments' = SrvDeleteAppointment(mutations[i].body.id)
    /\ toast' = "Appuntamento rimosso"
    /\ EditDone(i)

\* The catch branch does not read the response.
DeleteAppointmentFail(i, detail) ==
    /\ Pending(i, "deleteAppointment")
    /\ Rejected(i, "Errore nella rimozione")

(***************************************************************************)
(* Closing and reopening slots.                                            *)
(***************************************************************************)
OpenCloseAgendaDialog ==
    /\ OnGrid
    /\ "close" \in scope.panels
    /\ closeAgendaDialogOpen' = TRUE
    /\ toast' = ""
    /\ UNCHANGED <<view, snapshots, loading, bookingForm, createForm, editForm, closeMode,
                   closeSlotOre, closeSlotTipo, reopenDialogOpen, fetches, mutations,
                   server>>

\* "Gestisci Chiusure", shown when the day has closure records.
OpenReopenDialog ==
    /\ OnGrid
    /\ "reopen" \in scope.panels
    /\ Len(closedSlots) > 0
    /\ reopenDialogOpen' = TRUE
    /\ toast' = ""
    /\ UNCHANGED <<view, snapshots, loading, bookingForm, createForm, editForm, closeForm,
                   fetches, mutations, server>>

SetCloseMode(mode) ==
    /\ InDialog(closeAgendaDialogOpen)
    /\ mode # closeMode
    /\ closeMode' = mode
    /\ toast' = ""
    /\ UNCHANGED <<view, snapshots, loading, bookingForm, createForm, editForm,
                   closeAgendaDialogOpen, closeSlotOre, closeSlotTipo, reopenDialogOpen,
                   fetches, mutations, server>>

SetCloseSlotTipo(tipo) ==
    /\ InDialog(closeAgendaDialogOpen)
    /\ closeMode = "slot"
    /\ tipo # closeSlotTipo
    /\ tipo = "MED" => ~isVillaGinestre
    /\ closeSlotTipo' = tipo
    /\ toast' = ""
    /\ UNCHANGED <<view, snapshots, loading, bookingForm, createForm, editForm,
                   closeAgendaDialogOpen, closeMode, closeSlotOre, reopenDialogOpen,
                   fetches, mutations, server>>

\* The hour buttons of the close dialog; a button is disabled when its hour is
\* closed for the chosen type ("PICC" standing for "both").
toggleSlotOra(ora) ==
    /\ InDialog(closeAgendaDialogOpen)
    /\ closeMode = "slot"
    /\ ~isSlotClosed(ora, IF closeSlotTipo = "both" THEN "PICC" ELSE closeSlotTipo)
    /\ closeSlotOre' =
          IF \E k \in 1..Len(closeSlotOre) : closeSlotOre[k] = ora
          THEN SelectSeq(closeSlotOre, LAMBDA o : o # ora)
          ELSE Append(closeSlotOre, ora)
    /\ toast' = ""
    /\ UNCHANGED <<view, snapshots, loading, bookingForm, createForm, editForm,
                   closeAgendaDialogOpen, closeMode, closeSlotTipo, reopenDialogOpen,
                   fetches, mutations, server>>

resetCloseForm ==
    /\ closeMode' = "slot"
    /\ closeSlotOre' = <<>>
    /\ closeSlotTipo' = "both"

\* Annulla closes the dialog and resets its form.
CancelCloseAgendaDialog ==
    /\ InDialog(closeAgendaDialogOpen)
    /\ closeAgendaDialogOpen' = FALSE
    /\ resetCloseForm
    /\ toast' = ""
    /\ UNCHANGED <<view, snapshots, loading, bookingForm, createForm, editForm,
                   reopenDialogOpen, fetches, mutations, server>>

\* The dialog's own close control (onOpenChange) keeps the form.
DismissCloseAgendaDialog ==
    /\ InDialog(closeAgendaDialogOpen)
    /\ closeAgendaDialogOpen' = FALSE
    /\ toast' = ""
    /\ UNCHANGED <<view, snapshots, loading, bookingForm, createForm, editForm, closeMode,
                   closeSlotOre, closeSlotTipo, reopenDialogOpen, fetches, mutations,
                   server>>

\* The body's [ore] lists the ora of each record asked for: <<NULL>> for the
\* whole day, else the selected hours (payload.ora, one hour or an array).
handleCloseAgenda ==
    /\ InDialog(closeAgendaDialogOpen)
    /\ IF closeMode # "day" /\ Len(closeSlotOre) = 0
       THEN toast' = "Seleziona almeno un orario" /\ UNCHANGED mutations
       ELSE /\ Len(mutations) < scope.pending
            /\ toast' = ""
            /\ mutations' = Append(mutations, Request("closeAgenda",
                  [data |-> format(currentDate), ambulatorio |-> ambulatorio,
                   closeMode |-> closeMode,
                   ore |-> IF closeMode = "day" THEN <<NULL>> ELSE closeSlotOre,
                   tipo |-> IF closeMode = "day" \/ closeSlotTipo = "both"
                            THEN NULL ELSE closeSlotTipo]))
    /\ UNCHANGED <<view, snapshots, loading, dialogs, fetches, server>>

\* POST /closed-slots stores one record for each ora of the body.
SrvAddClosedSlots(body) ==
    srvClosedSlots \o
      [k \in 1..Len(body.ore) |->
          [id |-> srvCreated.closedSlots + k, ambulatorio |-> body.ambulatorio,
           data |-> body.data, ora |-> body.ore[k], tipo |-> body.tipo]]

CloseAgendaOk(i) ==
    /\ Pending(i, "closeAgenda")
    /\ srvCreated.closedSlots + Len(mutations[i].body.ore) <= scope.closedSlots
    /\ srvClosedSlots' = SrvAddClosedSlots(mutations[i].body)
    /\ srvCreated' = [srvCreated EXCEPT !.closedSlots = @ + Len(mutations[i].body.ore)]
    /\ toast' = IF mutations[i].body.closeMode = "day"
                THEN "Giornata chiusa" ELSE "slot chiusi"
    /\ closeAgendaDialogOpen' = FALSE
    /\ resetCloseForm
    /\ Refetch(i, NONE)
    /\ UNCHANGED <<view, snapshots, bookingForm, createForm, editForm, reopenDialogOpen,
                   srvAppointments, srvPatients>>

CloseAgendaFail(i, detail) ==
    /\ Pending(i, "closeAgenda")
    /\ Rejected(i, DetailOr(detail, "Errore nella chiusura"))

CloseReopenDialog ==
    /\ InDialog(reopenDialogOpen)
    /\ reopenDialogOpen' = FALSE
    /\ toast' = ""
    /\ UNCHANGED <<view, snapshots, loading, bookingForm, createForm, editForm, closeForm,
                   fetches, mutations, server>>

\* "Riapri" beside a record of the closures dialog.
handleReopenSlot(slotId) ==
    /\ InDialog(reopenDialogOpen)
    /\ \E k \in 1..Len(closedSlots) : closedSlots[k].id = slotId
    /\ Len(mutations) < scope.pending
    /\ mutations' = Append(mutations, Request("reopenSlot", [id |-> slotId]))
    /\ toast' = ""
    /\ UNCHANGED <<view, snapshots, loading, dialogs, fetches, server>>

\* DELETE /closed-slots/{id}
SrvDeleteClosedSlot(id) == SelectSeq(srvClosedSlots, LAMBDA cs : cs.id # id)

ReopenSlotOk(i) ==
    /\ Pending(i, "reopenSlot")
    /\ \E k \in 1..Len(srvClosedSlots) : srvClosedSlots[k].id = mutations[i].body.id
    /\ srvClosedSlots' = SrvDeleteClosedSlot(mutations[i].body.id)
    /\ toast' = "Slot riaperto"
    /\ Refetch(i, NONE)
    /\ UNCHANGED <<view, snapshots, dialogs, srvAppointments, srvPatients, srvCreated>>

\* The catch branch does not read the response.
ReopenSlotFail(i, detail) ==
    /\ Pending(i, "reopenSlot")
    /\ Rejected(i, "Errore nella riapertura")

\* "Riapri Tutto", disabled when the day has no closure record.
handleReopenDay ==
    /\ InDialog(reopenDialogOpen)
    /\ Len(closedSlots) > 0
    /\ Len(mutations) < scope.pending
    /\ mutations' = Append(mutations, Request("reopenDay",
          [ambulatorio |-> ambulatorio, data |-> format(currentDate)]))
    /\ toast' = ""
    /\ UNCHANGED <<view, snapshots, loading, dialogs, fetches, server>>

\* POST /closed-slots/reopen-day
SrvReopenDay(body) ==
    SelectSeq(srvClosedSlots,
              LAMBDA cs : ~(cs.ambulatorio = body.ambulatorio /\ cs.data = body.data))

ReopenDayOk(i) ==
    /\ Pending(i, "reopenDay")
    /\ srvClosedSlots' = SrvReopenDay(mutations[i].body)
    /\ toast' = "Giornata riaperta"
    /\ reopenDialogOpen' = FALSE
    /\ Refetch(i, NONE)
    /\ UNCHANGED <<view, snapshots, bookingForm, createForm, editForm, closeForm,
                   srvAppointments, srvPatients, srvCreated>>

\* The catch branch does not read the response.
ReopenDayFail(i, detail) ==
    /\ Pending(i, "reopenDay")
    /\ Rejected(i, "Errore nella riapertura")

(***************************************************************************)
(* The patients page: its lists and the status dialog.                     *)
(***************************************************************************)
agenda == <<ambulatorio, currentDate, initialLoadDone, chipClick, snapshots, loading, dialogs,
            fetches>>

\* The response of a fetchAllPatients batch: the three lists of the site.
FetchAllPatientsOk(i) ==
    /\ allPatients' = [status \in STATUSES |-> SrvGetPatientsOf(pzFetches[i], status)]
    /\ pzLoading' = FALSE
    /\ pzFetches' = RemoveAt(pzFetches, i)
    /\ toast' = ""
    /\ UNCHANGED <<today, srvHolidays, scope, agenda, forms, batchForm, deleteForm,
                    statusForm, mutations, server>>

FetchAllPatientsFail(i, code) ==
    /\ pzLoading' = FALSE
    /\ pzFetches' = RemoveAt(pzFetches, i)
    /\ toast' = IF code = "ERR_NETWORK" THEN "Errore di connessione al server" ELSE ""
    /\ UNCHANGED <<today, srvHolidays, scope, agenda, forms, batchForm, deleteForm,
                    allPatients, statusForm, mutations, server>>

\* The target statuses of getStatusActions: every status but the patient's own.
getStatusActions(patient) == STATUSES \ {patient.status}

\* The dialogs of the patients page are modal.
PzNoDialog ==
    ~(statusDialogOpen \/ batchStatusDialogOpen \/ deleteDialogOpen \/ batchDialogOpen)

\* String.prototype.toLowerCase on the names and search texts of the model.
toLowerCase(str) ==
    CASE str = "Ada" -> "ada"
      [] str = "Ugo" -> "ugo"
      [] str = "Rossi" -> "rossi"
      [] str = "Bianchi" -> "bianchi"
      [] OTHER -> str

\* String.prototype.includes for a search text that is empty or a whole word: no
\* name of the model has another name or search text as a proper substring.
includes(text, query) == query = "" \/ query = text

\* The type filter of the list: PICC_MED patients pass the PICC and the MED filter.
PassesTypeFilter(p) ==
    CASE typeFilter = "all" -> TRUE
      [] typeFilter = "PICC" -> p.tipo \in {"PICC", "PICC_MED"}
      [] typeFilter = "MED" -> p.tipo \in {"MED", "PICC_MED"}
      [] typeFilter = "PICC_MED" -> p.tipo = "PICC_MED"
      [] OTHER -> TRUE

\* The list of the active tab, narrowed by the search text and the type filter.
filteredPatients ==
    { p \in allPatients[activeTab] :
        /\ searchQuery # "" =>
              \/ includes(toLowerCase(p.nome), toLowerCase(searchQuery))
              \/ includes(toLowerCase(p.cognome), toLowerCase(searchQuery))
        /\ PassesTypeFilter(p) }

\* The search box is typed into; it stays usable in selection mode.
SetSearchQuery(text) ==
    /\ PazientiMounted /\ PzNoDialog
    /\ text # searchQuery
    /\ searchQuery' = text
    /\ toast' = ""
    /\ UNCHANGED <<today, srvHolidays, scope, agenda, allPatients, pzLoading, statusForm,
                   pzFetches, batchForm, deleteForm, typeFilter, batchCreateForm,
                   implantForm, mutations, server>>

\* A type is picked in the filter select or toggled on a counter card; the select
\* and the MED card are shown outside Villa delle Ginestre.
SetTypeFilter(value) ==
    /\ PazientiMounted /\ PzNoDialog
    /\ isVillaGinestre => value \in {"all", "PICC"}
    /\ value # typeFilter
    /\ typeFilter' = value
    /\ toast' = ""
    /\ UNCHANGED <<today, srvHolidays, scope, agenda, allPatients, pzLoading, statusForm,
                   pzFetches, batchForm, deleteForm, searchQuery, batchCreateForm,
                   implantForm, mutations, server>>

\* The names listed in the batch status and batch delete dialogs.
getSelectedPatientNames ==
    { <<p.cognome, p.nome>> : p \in { q \in filteredPatients : q.id \in selectedPatients } }

\* A tab is picked; the effect on [activeTab] clears the selection.
SetActiveTab(tab) ==
    /\ PzNoDialog
    /\ tab # activeTab
    /\ activeTab' = tab
    /\ selectedPatients' = {}
    /\ toast' = ""
    /\ UNCHANGED <<today, srvHolidays, scope, agenda, forms, allPatients, pzLoading, pzFetches,
                   statusForm, selectionMode, batchAction, batchStatusDialogOpen,
                   deleteForm, mutations, server>>

\* An action of a patient's menu, in the list of the active tab; the menu is
\* rendered when the page is not in selection mode.
openStatusDialog(patient, targetStatus) ==
    /\ "pazienti" \in scope.panels
    /\ ~pzLoading
    /\ PzNoDialog
    /\ ~selectionMode
    /\ patient \in filteredPatients
    /\ targetStatus \in getStatusActions(patient)
    /\ selectedPatientForStatus' = patient
    /\ newStatus' = targetStatus
    /\ statusReason' = ""
    /\ statusNotes' = ""
    /\ statusDialogOpen' = TRUE
    /\ toast' = ""
    /\ UNCHANGED <<today, srvHolidays, scope, agenda, forms, batchForm, deleteForm,
                    allPatients, pzLoading, pzFetches, mutations, server>>

SetStatusReason(reason) ==
    /\ statusDialogOpen \/ batchStatusDialogOpen
    /\ newStatus = "dimesso"
    /\ reason # statusReason
    /\ statusReason' = reason
    /\ toast' = ""
    /\ UNCHANGED <<today, srvHolidays, scope, agenda, forms, batchForm, deleteForm,
                    allPatients, pzLoading, pzFetches, statusDialogOpen,
                    selectedPatientForStatus, newStatus, statusNotes, mutations, server>>

SetStatusNotes(text) ==
    /\ statusDialogOpen \/ batchStatusDialogOpen
    /\ newStatus = "sospeso" \/ (newStatus = "dimesso" /\ statusReason # "")
    /\ text # statusNotes
    /\ statusNotes' = text
    /\ toast' = ""
    /\ UNCHANGED <<today, srvHolidays, scope, agenda, forms, batchForm, deleteForm,
                    allPatients, pzLoading, pzFetches, statusDialogOpen,
                    selectedPatientForStatus, newStatus, statusReason, mutations, server>>

\* Annulla, or the dialog's own close control.
CloseStatusDialog ==
    /\ statusDialogOpen
    /\ statusDialogOpen' = FALSE
    /\ toast' = ""
    /\ UNCHANGED <<today, srvHolidays, scope, agenda, forms, batchForm, deleteForm,
                    allPatients, pzLoading, pzFetches, selectedPatientForStatus,
                    newStatus, statusReason, statusNotes, mutations, server>>

handleStatusChange ==
    /\ statusDialogOpen
    /\ IF selectedPatientForStatus = NONE
       THEN toast' = "" /\ UNCHANGED mutations
       ELSE IF newStatus = "dimesso" /\ Falsy(statusReason)
       THEN toast' = "Seleziona una motivazione per la dimissione" /\ UNCHANGED mutations
       ELSE IF newStatus = "sospeso" /\ Falsy(statusNotes)
       THEN toast' = "Inserisci una nota per la sospensione" /\ UNCHANGED mutations
       ELSE IF newStatus = "dimesso" /\ statusReason = "altro" /\ Falsy(statusNotes)
       THEN toast' = "Inserisci una nota per specificare il motivo" /\ UNCHANGED mutations
       ELSE /\ Len(mutations) < scope.pending
            /\ toast' = ""
            /\ mutations' = Append(mutations, Request("statusChange",
                  IF newStatus = "dimesso"
                  THEN [id |-> selectedPatientForStatus.id, status |-> newStatus,
                        discharge_reason |-> statusReason, discharge_notes |-> statusNotes]
                  ELSE IF newStatus = "sospeso"
                  THEN [id |-> selectedPatientForStatus.id, status |-> newStatus,
                        suspend_notes |-> statusNotes]
                  ELSE [id |-> selectedPatientForStatus.id, status |-> newStatus]))
    /\ UNCHANGED <<view, snapshots, loading, dialogs, fetches, server>>

\* PUT /patients/{id}
SrvSetPatientStatus(id, status) ==
    {IF p.id = id THEN [p EXCEPT !.status = status] ELSE p : p \in srvPatients}

\* `Paziente ${statusLabels[newStatus]}`
statusLabels ==
    [in_cura |-> "Paziente ripreso in cura", dimesso |-> "Paziente dimesso",
     sospeso |-> "Paziente sospeso"]

StatusChangeOk(i) ==
    /\ Pending(i, "statusChange")
    /\ Len(pzFetches) < MaxFetches
    /\ srvPatients' = SrvSetPatientStatus(mutations[i].body.id, mutations[i].body.status)
    /\ toast' = statusLabels[mutations[i].body.status]
    /\ statusDialogOpen' = FALSE
    /\ pzFetches' = Append(pzFetches, mutations[i].render.ambulatorio)
    /\ pzLoading' = TRUE
    /\ mutations' = RemoveAt(mutations, i)
    /\ UNCHANGED <<today, srvHolidays, scope, agenda, forms, batchForm, deleteForm,
                    allPatients, selectedPatientForStatus, newStatus, statusReason,
                    statusNotes, srvAppointments, srvClosedSlots, srvCreated>>

\* The catch branch does not read the response.
StatusChangeFail(i, detail) ==
    /\ Pending(i, "statusChange")
    /\ Rejected(i, "Errore nel cambio stato")

(***************************************************************************)
(* The patients page: selection mode and the batch status dialog.          *)
(***************************************************************************)
\* "Seleziona Multipli" / "Esci Selezione"
ToggleSelectionMode ==
    /\ "batch" \in scope.panels
    /\ PzNoDialog
    /\ selectionMode' = ~selectionMode
    /\ selectedPatients' = IF selectionMode THEN {} ELSE selectedPatients
    /\ toast' = ""
    /\ UNCHANGED <<today, srvHolidays, scope, agenda, forms, allPatients, pzLoading, pzFetches,
                   statusForm, activeTab, batchAction, batchStatusDialogOpen, deleteForm,
                   mutations, server>>

\* A step that only replaces the selection.
Select(ids) ==
    /\ selectedPatients' = ids
    /\ toast' = ""
    /\ UNCHANGED <<today, srvHolidays, scope, agenda, forms, allPatients, pzLoading, pzFetches,
                   statusForm, activeTab, selectionMode, batchAction,
                   batchStatusDialogOpen, deleteForm, mutations, server>>

\* A card of the list is clicked in selection mode.
togglePatientSelection(patientId) ==
    /\ selectionMode
    /\ PzNoDialog
    /\ ~pzLoading
    /\ \E patient \in filteredPatients : patient.id = patientId
    /\ Select(IF patientId \in selectedPatients
              THEN selectedPatients \ {patientId}
              ELSE selectedPatients \cup {patientId})

\* The batch action bar is rendered in selection mode with a selection.
BatchBarShown == selectionMode /\ selectedPatients # {} /\ PzNoDialog

selectAllFiltered ==
    /\ BatchBarShown
    /\ Select({patient.id : patient \in filteredPatients})

deselectAll ==
    /\ BatchBarShown
    /\ Select({})

\* The bar offers the actions whose target is not the active tab's status.
openBatchStatusDialog(action) ==
    /\ BatchBarShown
    /\ action = "resume" => activeTab # "in_cura"
    /\ action = "suspend" => activeTab # "sospeso"
    /\ action = "discharge" => activeTab # "dimesso"
    /\ IF selectedPatients = {}
       THEN /\ toast' = "Seleziona almeno un paziente"
            /\ UNCHANGED <<batchAction, newStatus, statusReason, statusNotes,
                           batchStatusDialogOpen>>
       ELSE /\ batchAction' = action
            /\ newStatus' = IF action = "suspend" THEN "sospeso"
                            ELSE IF action = "resume" THEN "in_cura" ELSE "dimesso"
            /\ statusReason' = ""
            /\ statusNotes' = ""
            /\ batchStatusDialogOpen' = TRUE
            /\ toast' = ""
    /\ UNCHANGED <<today, srvHolidays, scope, agenda, forms, allPatients, pzLoading, pzFetches,
                   statusDialogOpen, selectedPatientForStatus, activeTab, selectionMode,
                   selectedPatients, deleteForm, mutations, server>>

\* Annulla, or the dialog's own close control.
CloseBatchStatusDialog ==
    /\ batchStatusDialogOpen
    /\ batchStatusDialogOpen' = FALSE
    /\ toast' = ""
    /\ UNCHANGED <<today, srvHolidays, scope, agenda, forms, allPatients, pzLoading, pzFetches,
                   statusForm, activeTab, selectionMode, selectedPatients, batchAction,
                   deleteForm, mutations, server>>

\* handleBatchStatusChange without the test of the suspension note.
handleBatchStatusChangeNoNote ==
    /\ batchStatusDialogOpen
    /\ IF selectedPatients = {}
       THEN toast' = "" /\ UNCHANGED mutations
       ELSE IF newStatus = "dimesso" /\ Falsy(statusReason)
       THEN toast' = "Seleziona una motivazione per la dimissione" /\ UNCHANGED mutations
       ELSE /\ Len(mutations) < scope.pending
            /\ toast' = ""
            /\ mutations' = Append(mutations, Request("batchStatusChange",
                  [patient_ids |-> selectedPatients, status |-> newStatus,
                   discharge_reason |-> statusReason, discharge_notes |-> statusNotes,
                   suspend_notes |-> statusNotes]))
    /\ UNCHANGED <<view, snapshots, loading, dialogs, fetches, server>>

handleBatchStatusChange ==
    /\ batchStatusDialogOpen
    /\ IF selectedPatients = {}
       THEN toast' = "" /\ UNCHANGED mutations
       ELSE IF newStatus = "dimesso" /\ Falsy(statusReason)
       THEN toast' = "Seleziona una motivazione per la dimissione" /\ UNCHANGED mutations
       ELSE IF newStatus = "sospeso" /\ Falsy(statusNotes)
       THEN toast' = "Inserisci una nota per la sospensione" /\ UNCHANGED mutations
       ELSE /\ Len(mutations) < scope.pending
            /\ toast' = ""
            /\ mutations' = Append(mutations, Request("batchStatusChange",
                  [patient_ids |-> selectedPatients, status |-> newStatus,
                   discharge_reason |-> statusReason, discharge_notes |-> statusNotes,
                   suspend_notes |-> statusNotes]))
    /\ UNCHANGED <<view, snapshots, loading, dialogs, fetches, server>>

\* PUT /patients/batch/status sets the status of the patients it finds.
SrvSetPatientsStatus(ids, status) ==
    {IF p.id \in ids THEN [p EXCEPT !.status = status] ELSE p : p \in srvPatients}

\* `${response.data.updated} pazienti ${statusLabels[newStatus]}`
batchStatusLabels ==
    [in_cura |-> "ripresi in cura", dimesso |-> "dimessi", sospeso |-> "sospesi"]

\* The notice is the last one raised: the warning when some patients were not
\* processed, else the success notice.
BatchStatusChangeOk(i) ==
    /\ Pending(i, "batchStatusChange")
    /\ Len(pzFetches) < MaxFetches
    /\ LET body == mutations[i].body
           updated == Cardinality({p \in srvPatients : p.id \in body.patient_ids})
           errors == Cardinality(body.patient_ids) - updated
       IN  /\ srvPatients' = SrvSetPatientsStatus(body.patient_ids, body.status)
           /\ toast' = IF errors > 0
                       THEN ToString(errors) \o " pazienti non processati"
                       ELSE ToString(updated) \o " pazienti " \o batchStatusLabels[body.status]
    /\ batchStatusDialogOpen' = FALSE
    /\ selectedPatients' = {}
    /\ selectionMode' = FALSE
    /\ pzFetches' = Append(pzFetches, mutations[i].render.ambulatorio)
    /\ pzLoading' = TRUE
    /\ mutations' = RemoveAt(mutations, i)
    /\ UNCHANGED <<today, srvHolidays, scope, agenda, forms, allPatients, statusForm, activeTab,
                   batchAction, deleteForm, srvAppointments, srvClosedSlots, srvCreated>>

\* The catch branch does not read the response.
BatchStatusChangeFail(i, detail) ==
    /\ Pending(i, "batchStatusChange")
    /\ Rejected(i, "Errore nel cambio stato")

(***************************************************************************)
(* The patients page: the delete dialog.                                   *)
(***************************************************************************)
\* "Elimina Definitivamente" of a patient's menu.
openDeleteDialog(patient) ==
    /\ "delete" \in scope.panels
    /\ ~pzLoading
    /\ PzNoDialog
    /\ ~selectionMode
    /\ patient \in filteredPatients
    /\ selectedPatientForDelete' = patient
    /\ deleteDialogOpen' = TRUE
    /\ toast' = ""
    /\ UNCHANGED <<today, srvHolidays, scope, agenda, forms, allPatients, pzLoading, pzFetches,
                   statusForm, batchForm, mutations, server>>

\* Annulla, or the dialog's own close control.
CloseDeleteDialog ==
    /\ deleteDialogOpen
    /\ deleteDialogOpen' = FALSE
    /\ toast' = ""
    /\ UNCHANGED <<today, srvHolidays, scope, agenda, forms, allPatients, pzLoading, pzFetches,
                   statusForm, batchForm, selectedPatientForDelete, mutations, server>>

\* The confirm button is an AlertDialogAction: the click closes the dialog
\* (onOpenChange) and calls the handler.
handleDeletePatient ==
    /\ deleteDialogOpen
    /\ deleteDialogOpen' = FALSE
    /\ IF selectedPatientForDelete = NONE
       THEN toast' = "" /\ UNCHANGED mutations
       ELSE /\ Len(mutations) < scope.pending
            /\ toast' = ""
            /\ mutations' = Append(mutations, Request("deletePatient",
                  [id |-> selectedPatientForDelete.id]))
    /\ UNCHANGED <<today, srvHolidays, scope, agenda, forms, allPatients, pzLoading, pzFetches,
                   statusForm, batchForm, selectedPatientForDelete, server>>

\* DELETE /patients/{id}
SrvDeletePatient(id) == {p \in srvPatients : p.id # id}

DeletePatientOk(i) ==
    /\ Pending(i, "deletePatient")
    /\ Len(pzFetches) < MaxFetches
    /\ \E p \in srvPatients : p.id = mutations[i].body.id
    /\ srvPatients' = SrvDeletePatient(mutations[i].body.id)
    /\ toast' = "Paziente eliminato definitivamente"
    /\ deleteDialogOpen' = FALSE
    /\ selectedPatientForDelete' = NONE
    /\ pzFetches' = Append(pzFetches, mutations[i].render.ambulatorio)
    /\ pzLoading' = TRUE
    /\ mutations' = RemoveAt(mutations, i)
    /\ UNCHANGED <<today, srvHolidays, scope, agenda, forms, allPatients, statusForm, batchForm,
                   srvAppointments, srvClosedSlots, srvCreated>>

\* The catch branch does not read the response.
DeletePatientFail(i, detail) ==
    /\ Pending(i, "deletePatient")
    /\ Rejected(i, "Errore nell'eliminazione del paziente")

(***************************************************************************)
(* The patients page: the "Aggiunta Multipla" dialog, its two tabs and the *)
(* typeahead of the implant rows.                                          *)
(***************************************************************************)
\* What the handlers of the batch dialog leave alone.
outsideBatchDialog ==
    <<today, srvHolidays, scope, agenda, allPatients, pzLoading, statusForm, pzFetches,
      batchForm, deleteForm, listFilter, mutations, server>>

MaxRows == 2
MaxSearches == 2

\* "Aggiunta Multipla" in the header of the page.
OpenBatchDialog ==
    /\ scope.panels \cap {"batchCreate", "implants"} # {}
    /\ PzNoDialog
    /\ batchDialogOpen' = TRUE
    /\ toast' = ""
    /\ UNCHANGED <<outsideBatchDialog, batchTab, batchPatients, implantForm>>

\* onOpenChange(false): the dialog is dismissed; the rows stay as they are.
DismissBatchDialog ==
    /\ batchDialogOpen
    /\ batchDialogOpen' = FALSE
    /\ batchTab' = "pazienti"
    /\ toast' = ""
    /\ UNCHANGED <<outsideBatchDialog, batchPatients, implantForm>>

SetBatchTab(tab) ==
    /\ batchDialogOpen
    /\ tab = "impianti" => "implants" \in scope.panels
    /\ tab # batchTab
    /\ batchTab' = tab
    /\ toast' = ""
    /\ UNCHANGED <<outsideBatchDialog, batchDialogOpen, batchPatients, implantForm>>

ImplantsTabShown == batchDialogOpen /\ batchTab = "impianti" /\ "implants" \in scope.panels

\* "Annulla" of the implants tab.
CancelBatchImplants ==
    /\ ImplantsTabShown
    /\ batchDialogOpen' = FALSE
    /\ batchImplants' = <<EmptyBatchImplant>>
    /\ piccPatientResults' = {}
    /\ toast' = ""
    /\ UNCHANGED <<outsideBatchDialog, batchTab, batchPatients, activeSearchIndex,
                   piccSearches>>

addBatchImplantRow ==
    /\ ImplantsTabShown
    /\ Len(batchImplants) < MaxRows
    /\ batchImplants' = Append(batchImplants, EmptyBatchImplant)
    /\ toast' = ""
    /\ UNCHANGED <<outsideBatchDialog, batchCreateForm, piccPatientResults,
                   activeSearchIndex, piccSearches>>

\* The remove button of a row; rows are numbered from 1 here, from 0 in the code.
removeBatchImplantRow(index) ==
    /\ ImplantsTabShown
    /\ index \in 1..Len(batchImplants)
    /\ Len(batchImplants) > 1
    /\ batchImplants' = RemoveAt(batchImplants, index)
    /\ toast' = ""
    /\ UNCHANGED <<outsideBatchDialog, batchCreateForm, piccPatientResults,
                   activeSearchIndex, piccSearches>>

\* String.prototype.length of the texts typed into the search input of a row.
length(str) ==
    CASE str = "" -> 0
      [] str = "r" -> 1
      [] str = "ro" -> 2
      [] str = "bi" -> 2

PiccQueries == {"", "r", "ro", "bi"}

\* The input of a row that has no patient yet: updateBatchImplant of the name,
\* then searchPiccPatients, which sends a request for a text of two characters
\* or more and empties the results for a shorter one.
searchPiccPatients(query, index) ==
    /\ ImplantsTabShown
    /\ index \in 1..Len(batchImplants)
    /\ batchImplants[index].patient_id = NoPatientId
    /\ query # batchImplants[index].patient_name
    /\ batchImplants' = [batchImplants EXCEPT ![index].patient_name = query]
    /\ IF Falsy(query) \/ length(query) < 2
       THEN /\ piccPatientResults' = {}
            /\ UNCHANGED <<activeSearchIndex, piccSearches>>
       ELSE /\ Len(piccSearches) < MaxSearches
            /\ activeSearchIndex' = index
            /\ piccSearches' = Append(piccSearches,
                  [query |-> query, index |-> index, ambulatorio |-> ambulatorio])
            /\ UNCHANGED piccPatientResults
    /\ toast' = ""
    /\ UNCHANGED <<outsideBatchDialog, batchCreateForm>>

\* GET /patients/picc/search: the patients of the site that can carry an implant
\* and whose surname starts with the text, whatever the case of the letters.
SrvPiccSearch(query, amb) ==
    { p \in srvPatients :
        /\ p.ambulatorio = amb
        /\ p.tipo \in {"PICC", "PICC_MED"}
        /\ \/ query \in {"r", "ro"} /\ p.cognome = "Rossi"
           \/ query = "bi" /\ p.cognome = "Bianchi" }

\* A search is answered: the results become the response, whichever row and
\* text the request was sent for.
PiccSearchOk(i) ==
    /\ i \in 1..Len(piccSearches)
    /\ piccPatientResults' = SrvPiccSearch(piccSearches[i].query, piccSearches[i].ambulatorio)
    /\ piccSearches' = RemoveAt(piccSearches, i)
    /\ toast' = ""
    /\ UNCHANGED <<outsideBatchDialog, batchCreateForm, batchImplants, activeSearchIndex>>

\* A search fails: the error is logged and the results are emptied.
PiccSearchFail(i) ==
    /\ i \in 1..Len(piccSearches)
    /\ piccPatientResults' = {}
    /\ piccSearches' = RemoveAt(piccSearches, i)
    /\ toast' = ""
    /\ UNCHANGED <<outsideBatchDialog, batchCreateForm, batchImplants, activeSearchIndex>>

\* The results are listed under the row of activeSearchIndex while it has no
\* patient.
ResultsShownAt(index) ==
    /\ ImplantsTabShown
    /\ index \in 1..Len(batchImplants)
    /\ batchImplants[index].patient_id = NoPatientId
    /\ activeSearchIndex = index
    /\ piccPatientResults # {}

\* `${patient.cognome} ${patient.nome}`
FullName(patient) ==
    CASE patient.cognome = "Rossi" /\ patient.nome = "Ada" -> "Rossi Ada"
      [] patient.cognome = "Bianchi" /\ patient.nome = "Ugo" -> "Bianchi Ugo"

\* A result listed under a row is clicked.
selectPiccPatient(patient, index) ==
    /\ ResultsShownAt(index)
    /\ patient \in piccPatientResults
    /\ batchImplants' = [batchImplants EXCEPT ![index].patient_id = patient.id,
                                               ![index].patient_name = FullName(patient)]
    /\ piccPatientResults' = {}
    /\ activeSearchIndex' = NoIndex
    /\ toast' = ""
    /\ UNCHANGED <<outsideBatchDialog, batchCreateForm, piccSearches>>

\* The X next to the patient of a row.
ClearImplantPatient(index) ==
    /\ ImplantsTabShown
    /\ index \in 1..Len(batchImplants)
    /\ batchImplants[index].patient_id # NoPatientId
    /\ batchImplants' = [batchImplants EXCEPT ![index].patient_id = NoPatientId,
                                               ![index].patient_name = ""]
    /\ toast' = ""
    /\ UNCHANGED <<outsideBatchDialog, batchCreateForm, piccPatientResults,
                   activeSearchIndex, piccSearches>>

(***************************************************************************)
(* The patients page: the patients tab of the batch dialog.                *)
(***************************************************************************)
PatientsTabShown ==
    batchDialogOpen /\ batchTab = "pazienti" /\ "batchCreate" \in scope.panels

PiccTypes == {"PICC", "PICC_MED"}

\* The fields a handler of the patients tab leaves alone.
outsideBatchPatients == <<outsideBatchDialog, batchDialogOpen, batchTab, implantForm>>

\* updateBatchPatient for the inputs of a row: the surname and the name always,
\* the implant type and the insertion date in a row of type PICC or PICC_MED.
updateBatchPatient(index, field, value) ==
    /\ PatientsTabShown
    /\ index \in 1..Len(batchPatients)
    /\ field \in {"tipo_impianto", "data_inserimento_impianto"} =>
          batchPatients[index].tipo \in PiccTypes
    /\ batchPatients[index][field] # value
    /\ batchPatients' = [batchPatients EXCEPT ![index][field] = value]
    /\ toast' = ""
    /\ UNCHANGED outsideBatchPatients

\* The type select of a row without the reset of the implant fields.
SetBatchPatientTipoKeepsImplant(index, value) ==
    /\ PatientsTabShown
    /\ index \in 1..Len(batchPatients)
    /\ batchPatients[index].tipo # value
    /\ batchPatients' = [batchPatients EXCEPT ![index].tipo = value]
    /\ toast' = ""
    /\ UNCHANGED outsideBatchPatients

\* The type select of a row: updateBatchPatient of the type and, for a type
\* other than PICC and PICC_MED, of the two implant fields.  The three calls
\* write into the same row object, so the last setBatchPatients holds them all.
SetBatchPatientTipo(index, value) ==
    /\ PatientsTabShown
    /\ index \in 1..Len(batchPatients)
    /\ batchPatients[index].tipo # value
    /\ batchPatients' =
          IF value \notin PiccTypes
          THEN [batchPatients EXCEPT ![index].tipo = value,
                                     ![index].tipo_impianto = "",
                                     ![index].data_inserimento_impianto = ""]
          ELSE [batchPatients EXCEPT ![index].tipo = value]
    /\ toast' = ""
    /\ UNCHANGED outsideBatchPatients

addBatchPatientRow ==
    /\ PatientsTabShown
    /\ Len(batchPatients) < MaxRows
    /\ batchPatients' = Append(batchPatients, EmptyBatchPatient)
    /\ toast' = ""
    /\ UNCHANGED outsideBatchPatients

\* The X of a row, rendered when there is more than one row.
removeBatchPatientRow(index) ==
    /\ PatientsTabShown
    /\ index \in 1..Len(batchPatients)
    /\ Len(batchPatients) > 1
    /\ batchPatients' = RemoveAt(batchPatients, index)
    /\ toast' = ""
    /\ UNCHANGED outsideBatchPatients

\* "Annulla" of the patients tab.
CancelBatchPatients ==
    /\ PatientsTabShown
    /\ batchDialogOpen' = FALSE
    /\ batchPatients' = <<EmptyBatchPatient>>
    /\ toast' = ""
    /\ UNCHANGED <<outsideBatchDialog, batchTab, implantForm>>

\* batchPatients.filter(p => p.nome && p.cognome && p.tipo)
validPatients == SelectSeq(batchPatients,
    LAMBDA p : ~Falsy(p.nome) /\ ~Falsy(p.cognome) /\ ~Falsy(p.tipo))

\* A patient of the request: the implant fields are spread in only when they
\* are not empty.
BatchPatientBody(p) ==
    LET base == [nome |-> p.nome, cognome |-> p.cognome, tipo |-> p.tipo,
                 ambulatorio |-> ambulatorio]
        withTipo == IF Falsy(p.tipo_impianto) THEN base
                    ELSE [tipo_impianto |-> p.tipo_impianto] @@ base
    IN  IF Falsy(p.data_inserimento_impianto) THEN withTipo
        ELSE [data_inserimento_impianto |-> p.data_inserimento_impianto] @@ withTipo

MaxBatchPatients == 2

\* "Crea N Pazienti".
handleBatchCreate ==
    /\ PatientsTabShown
    /\ IF Len(validPatients) = 0
       THEN toast' = "Inserisci almeno un paziente completo" /\ UNCHANGED mutations
       ELSE /\ Len(mutations) < scope.pending
            /\ Cardinality(srvPatients) + Len(validPatients)
                  <= Cardinality(InitialPatients) + MaxBatchPatients
            /\ toast' = ""
            /\ mutations' = Append(mutations, Request("batchCreate",
                  [patients |-> [k \in 1..Len(validPatients) |->
                                   BatchPatientBody(validPatients[k])]]))
    /\ UNCHANGED <<view, snapshots, loading, dialogs, fetches, server>>

\* POST /patients/batch stores every patient of the body, in cura.
SrvBatchCreate(body) ==
    srvPatients \cup
    { [id |-> Cardinality(srvPatients) + k, nome |-> body.patients[k].nome,
       cognome |-> body.patients[k].cognome, tipo |-> body.patients[k].tipo,
       ambulatorio |-> body.patients[k].ambulatorio, status |-> "in_cura"] :
      k \in 1..Len(body.patients) }

\* The patients are stored: the notice counts them and the implant records, the
\* dialog closes, the rows are reset and the lists are fetched again.
BatchCreateOk(i) ==
    /\ Pending(i, "batchCreate")
    /\ Len(pzFetches) < MaxFetches
    /\ LET body == mutations[i].body
           created == Len(body.patients)
           impianti == Cardinality({k \in 1..created :
                          "tipo_impianto" \in DOMAIN body.patients[k]})
       IN  /\ srvPatients' = SrvBatchCreate(body)
           /\ toast' = IF impianti > 0
                       THEN ToString(created) \o " pazienti creati con successo, "
                            \o ToString(impianti) \o " schede impianto create"
                       ELSE ToString(created) \o " pazienti creati con successo"
    /\ batchDialogOpen' = FALSE
    /\ batchPatients' = <<EmptyBatchPatient>>
    /\ pzFetches' = Append(pzFetches, mutations[i].render.ambulatorio)
    /\ pzLoading' = TRUE
    /\ mutations' = RemoveAt(mutations, i)
    /\ UNCHANGED <<today, srvHolidays, scope, agenda, allPatients, statusForm, batchForm,
                   deleteForm, listFilter, batchTab, implantForm, srvAppointments,
                   srvClosedSlots, srvCreated>>

BatchCreateFail(i, detail) ==
    /\ Pending(i, "batchCreate")
    /\ Rejected(i, DetailOr(detail, "Errore nella creazione"))

(***************************************************************************)
(* The page: its handlers by control, and the specifications.              *)
(***************************************************************************)
Navigate ==
    \/ goToToday
    \/ goToPrevDay
    \/ goToNextDay
    \/ \E date \in DAYS : CalendarSelect(date)

Site == \E amb \in SITES : ChangeAmbulatorio(amb)

Fetching ==
    \/ \E i \in 1..MaxFetches : i <= Len(fetches) /\ FetchDataOk(i)
    \/ \E i \in 1..MaxFetches, code \in {"401", "ERR_NETWORK", "500"} :
          i <= Len(fetches) /\ FetchDataFail(i, code)

Grid == \E ora \in scope.ore, tipo \in TIPI : handleSlotClick(ora, tipo)

Booking ==
    \/ \E patient \in patients : handlePatientSelect(patient)
    \/ ClearSelectedPatient
    \/ \E p \in scope.prestazioni : handlePrestazioneToggle(p)
    \/ CloseBookingDialog
    \/ handleAddAppointment
    \/ \E i \in 1..MaxMutations : AddAppointmentOk(i)
    \/ \E i \in 1..MaxMutations, detail \in Details : AddAppointmentFail(i, detail)

QuickPatient ==
    \/ OpenCreatePatientDialog
    \/ \E text \in {"", "Ada"} : SetNewPatientNome(text)
    \/ \E text \in {"", "Rossi"} : SetNewPatientCognome(text)
    \/ CloseCreatePatientDialog
    \/ handleCreatePatient
    \/ \E i \in 1..MaxMutations : CreatePatientOk(i)
    \/ \E i \in 1..MaxMutations, detail \in Details : CreatePatientFail(i, detail)

Editing ==
    \/ \E appointment \in appointments : handleOpenEditDialog(appointment)
    \/ CloseEditDialog
    \/ \E p \in scope.prestazioni : handleEditPrestazioneToggle(p)
    \/ \E newStato \in {"effettuato", "non_presentato"} : handleChangeStato(newStato)
    \/ handleSavePrestazioni
    \/ handleDeleteAppointment
    \/ \E i \in 1..MaxMutations : ChangeStatoOk(i)
    \/ \E i \in 1..MaxMutations, detail \in Details : ChangeStatoFail(i, detail)
    \/ \E i \in 1..MaxMutations : SavePrestazioniOk(i)
    \/ \E i \in 1..MaxMutations, detail \in Details : SavePrestazioniFail(i, detail)
    \/ \E i \in 1..MaxMutations : DeleteAppointmentOk(i)
    \/ \E i \in 1..MaxMutations, detail \in Details : DeleteAppointmentFail(i, detail)

Closing ==
    \/ OpenCloseAgendaDialog
    \/ \E mode \in {"slot", "day"} : SetCloseMode(mode)
    \/ \E tipo \in {"both", "PICC", "MED"} : SetCloseSlotTipo(tipo)
    \/ \E ora \in scope.ore : toggleSlotOra(ora)
    \/ CancelCloseAgendaDialog
    \/ DismissCloseAgendaDialog
    \/ handleCloseAgenda
    \/ \E i \in 1..MaxMutations : CloseAgendaOk(i)
    \/ \E i \in 1..MaxMutations, detail \in Details : CloseAgendaFail(i, detail)

Reopening ==
    \/ OpenReopenDialog
    \/ CloseReopenDialog
    \/ \E k \in 1..Len(closedSlots) : handleReopenSlot(closedSlots[k].id)
    \/ handleReopenDay
    \/ \E i \in 1..MaxMutations : ReopenSlotOk(i)
    \/ \E i \in 1..MaxMutations, detail \in Details : ReopenSlotFail(i, detail)
    \/ \E i \in 1..MaxMutations : ReopenDayOk(i)
    \/ \E i \in 1..MaxMutations, detail \in Details : ReopenDayFail(i, detail)

PatientStatus ==
    \/ \E i \in 1..MaxFetches : i <= Len(pzFetches) /\ FetchAllPatientsOk(i)
    \/ \E i \in 1..MaxFetches, code \in {"401", "ERR_NETWORK", "500"} :
          i <= Len(pzFetches) /\ FetchAllPatientsFail(i, code)
    \/ \E patient \in filteredPatients, targetStatus \in STATUSES :
          openStatusDialog(patient, targetStatus)
    \/ \E reason \in {"guarito", "altro"} : SetStatusReason(reason)
    \/ \E text \in {"", "nota"} : SetStatusNotes(text)
    \/ CloseStatusDialog
    \/ handleStatusChange
    \/ \E i \in 1..MaxMutations : StatusChangeOk(i)
    \/ \E i \in 1..MaxMutations, detail \in Details : StatusChangeFail(i, detail)

PatientTabs == \E tab \in STATUSES : SetActiveTab(tab)

PatientBatch ==
    \/ ToggleSelectionMode
    \/ \E patient \in filteredPatients : togglePatientSelection(patient.id)
    \/ selectAllFiltered
    \/ deselectAll
    \/ \E action \in {"suspend", "resume", "discharge"} : openBatchStatusDialog(action)
    \/ CloseBatchStatusDialog
    \/ handleBatchStatusChange
    \/ \E i \in 1..MaxMutations : BatchStatusChangeOk(i)
    \/ \E i \in 1..MaxMutations, detail \in Details : BatchStatusChangeFail(i, detail)

PatientDelete ==
    \/ \E patient \in filteredPatients : openDeleteDialog(patient)
    \/ CloseDeleteDialog
    \/ handleDeletePatient
    \/ \E i \in 1..MaxMutations : DeletePatientOk(i)
    \/ \E i \in 1..MaxMutations, detail \in Details : DeletePatientFail(i, detail)

\* The holidays of the backend's calendar: New Year's Day.
Capodanno == {format(8)}

\* A session opens the page on [day] at pta_centro, over a backend that holds
\* the given holiday calendar, appointments and closure records.
SessionOn(day, calendar, sc, storedAppointments, storedClosedSlots) ==
    /\ today = day
    /\ srvHolidays = calendar
    /\ scope = sc
    /\ ambulatorio = "pta_centro"
    /\ InitPage
    /\ srvAppointments = storedAppointments
    /\ srvClosedSlots = storedClosedSlots
    /\ srvPatients = InitialPatients
    /\ srvCreated = [appointments |-> Cardinality(storedAppointments),
                     closedSlots |-> Len(storedClosedSlots)]

Session(day, sc, storedAppointments, storedClosedSlots) ==
    SessionOn(day, Capodanno, sc, storedAppointments, storedClosedSlots)

Appointment(id, amb, date, ora, tipo, patient) ==
    [id |-> id, ambulatorio |-> amb, data |-> format(date), ora |-> ora, tipo |-> tipo,
     patient_id |-> patient, prestazioni |-> {"medicazione_semplice"}, stato |-> "da_fare"]

ClosedSlot(id, amb, date, ora, tipo) ==
    [id |-> id, ambulatorio |-> amb, data |-> format(date), ora |-> ora, tipo |-> tipo]

(***************************************************************************)
(* SpecGrid: the header and the grid.  The user moves between the days,    *)
(* the site changes, cells are clicked and closures are reopened, over a   *)
(* backend that holds a full slot, a full and closed slot, a closed slot,  *)
(* and a whole-day closure on the holiday.                                 *)
(***************************************************************************)
GridAppointments ==
    { Appointment(1, "pta_centro", 9, "09:00", "PICC", 1),
      Appointment(2, "pta_centro", 9, "09:00", "PICC", 1),
      Appointment(3, "pta_centro", 9, "09:30", "MED", 2),
      Appointment(4, "pta_centro", 9, "09:30", "MED", 2),
      Appointment(5, "villa_ginestre", 9, "09:00", "PICC", 1) }

GridClosedSlots ==
    << ClosedSlot(1, "pta_centro", 9, "09:00", NULL),
       ClosedSlot(2, "pta_centro", 8, NULL, NULL),
       ClosedSlot(3, "pta_centro", 7, "09:00", "MED") >>

InitGrid ==
    \E day \in {5, 6, 7} :
        Session(day, Scope({"cells"}, TIME_SLOTS, {}, 0, 0, 0),
                GridAppointments, GridClosedSlots)

NextGrid ==
    \/ Fetching
    \/ Navigate
    \/ Site
    \/ Grid
    \/ CloseBookingDialog
    \/ CloseReopenDialog

SpecGrid == InitGrid /\ [][NextGrid]_vars

(***************************************************************************)
(* SpecReopen: the user moves between the days and reopens closures while  *)
(* requests are unanswered.                                                *)
(***************************************************************************)
ReopenClosedSlots ==
    << ClosedSlot(1, "pta_centro", 7, "09:00", "PICC"),
       ClosedSlot(2, "pta_centro", 9, "09:00", NULL) >>

InitReopen ==
    Session(7, Scope({"reopen"}, {}, {}, 1, 0, 0), {}, ReopenClosedSlots)

NextReopen ==
    \/ Fetching
    \/ Navigate
    \/ Reopening

SpecReopen == InitReopen /\ [][NextReopen]_vars

(***************************************************************************)
(* SpecBooking: the grid and the booking dialog of one day, with up to     *)
(* MaxMutations requests unanswered at once.                               *)
(***************************************************************************)
InitBooking ==
    Session(7, Scope({"cells"}, {"09:00"}, {"medicazione_semplice"},
                     MaxMutations, MaxAppointments, 0), {}, <<>>)

NextBooking ==
    \/ Fetching
    \/ Grid
    \/ Booking

SpecBooking == InitBooking /\ [][NextBooking]_vars

(***************************************************************************)
(* SpecSlots: isSlotClosed over the closure lists a day can have.  The     *)
(* backend holds up to MaxClosedSlots records of today, each for one hour  *)
(* or every hour, and one type or every type; the page loads them and the  *)
(* cells are clicked.                                                      *)
(***************************************************************************)
ClosureLists ==
    LET shapes == [ora : {NULL} \cup TIME_SLOTS, tipo : {NULL} \cup TIPI]
    IN  UNION { [1..n -> shapes] : n \in 0..MaxClosedSlots }

InitSlots ==
    \E list \in ClosureLists :
        Session(7, Scope({"cells"}, TIME_SLOTS, {}, 0, 0, 0), {},
                [k \in 1..Len(list) |->
                    ClosedSlot(k, "pta_centro", 7, list[k].ora, list[k].tipo)])

NextSlots ==
    \/ Fetching
    \/ Grid
    \/ CloseBookingDialog
    \/ CloseReopenDialog

SpecSlots == InitSlots /\ [][NextSlots]_vars

(***************************************************************************)
(* SpecDays: the page is opened on any day of the window, over any holiday *)
(* calendar of the window's dates, and the user moves between the days.    *)
(***************************************************************************)
Calendars == SUBSET {format(d) : d \in DAYS}

InitDays ==
    \E day \in DAYS, calendar \in Calendars :
        SessionOn(day, calendar, Scope({}, {}, {}, 0, 0, 0), {}, <<>>)

NextDays ==
    \/ Fetching
    \/ Navigate

SpecDays == InitDays /\ [][NextDays]_vars

(***************************************************************************)
(* SpecPazienti: the patients page.  A session works with the status dialog *)
(* of a patient, or with selection mode and the batch status dialog, or    *)
(* with the delete dialog.                                                 *)
(***************************************************************************)
InitPazienti ==
    \E panel \in {"pazienti", "batch", "delete"} :
        Session(7, Scope({panel}, {}, {}, 1, 0, 0), {}, <<>>)

NextPazienti ==
    \/ PatientStatus
    \/ PatientTabs
    \/ PatientBatch
    \/ PatientDelete

SpecPazienti == InitPazienti /\ [][NextPazienti]_vars

(***************************************************************************)
(* Spec: every handler of the page on one day.  A session works with the   *)
(* cells, the booking dialog and the quick patient dialog, or with the     *)
(* chips and the edit dialog, or with the two closure dialogs.             *)
(***************************************************************************)
Sessions ==
    { [scope |-> Scope({"cells", "newPatient"}, {"09:00"}, {"medicazione_semplice"}, 1, 1, 0),
       appointments |-> {}, closedSlots |-> <<>>],
      [scope |-> Scope({"chips"}, {}, {"medicazione_semplice"}, MaxMutations, 0, 0),
       appointments |-> {Appointment(1, "pta_centro", 7, "09:00", "PICC", 1)},
       closedSlots |-> <<>>],
      [scope |-> Scope({"close", "reopen"}, TIME_SLOTS, {}, 1, 0, MaxClosedSlots),
       appointments |-> {}, closedSlots |-> <<>>],
      [scope |-> Scope({"pazienti"}, {}, {}, 1, 0, 0),
       appointments |-> {}, closedSlots |-> <<>>] }

Init == \E s \in Sessions : Session(7, s.scope, s.appointments, s.closedSlots)

Next ==
    \/ Fetching
    \/ Grid
    \/ Booking
    \/ QuickPatient
    \/ Editing
    \/ Closing
    \/ Reopening
    \/ PatientStatus

Spec == Init /\ [][Next]_vars

(***************************************************************************)
(* SpecChips: the patient chips of the grid.  Monday and Wednesday hold    *)
(* appointments of two patients; the user moves between the days, clicks   *)
(* chips once or twice, and works in the edit dialog.                      *)
(***************************************************************************)
ChipAppointments ==
    { Appointment(1, "pta_centro", 7, "09:00", "PICC", 1),
      Appointment(2, "pta_centro", 7, "09:00", "MED", 2),
      Appointment(3, "pta_centro", 9, "09:30", "PICC", 1) }

InitChips ==
    Session(7, Scope({"chips"}, {}, {"medicazione_semplice"}, 0, 0, 0), ChipAppointments, <<>>)

NextChips ==
    \/ Fetching
    \/ Navigate
    \/ \E apt \in appointments : handlePatientChipClick(apt)
    \/ ClickTimerFires
    \/ CloseEditDialog
    \/ \E p \in scope.prestazioni : handleEditPrestazioneToggle(p)

SpecChips == InitChips /\ [][NextChips]_vars

(***************************************************************************)
(* SpecSelection: selection mode of the patients page.  The user changes   *)
(* the tab and the site, selects patients and changes their status in one  *)
(* request.                                                                *)
(***************************************************************************)
InitSelection == Session(7, Scope({"batch"}, {}, {}, 1, 0, 0), {}, <<>>)

NextSelection ==
    \/ \E i \in 1..MaxFetches : i <= Len(pzFetches) /\ FetchAllPatientsOk(i)
    \/ \E i \in 1..MaxFetches, code \in {"401", "ERR_NETWORK", "500"} :
          i <= Len(pzFetches) /\ FetchAllPatientsFail(i, code)
    \/ SetStatusNotes("nota")
    \/ PatientTabs
    \/ PatientBatch
    \/ Site

SpecSelection == InitSelection /\ [][NextSelection]_vars

(***************************************************************************)
(* SpecFilter: the patients page in selection mode at one site.  The user  *)
(* selects patients, narrows the list with the search box and the type     *)
(* filter, and opens and confirms the batch status dialog.                 *)
(***************************************************************************)
TypeFilters == {"all", "PICC", "MED"}

InitFilter == Session(7, Scope({"batch"}, {}, {}, 1, 0, 0), {}, <<>>)

NextFilter ==
    \/ \E i \in 1..MaxFetches : i <= Len(pzFetches) /\ FetchAllPatientsOk(i)
    \/ \E i \in 1..MaxFetches, code \in {"401", "ERR_NETWORK", "500"} :
          i <= Len(pzFetches) /\ FetchAllPatientsFail(i, code)
    \/ SetStatusNotes("nota")
    \/ PatientBatch
    \/ \E text \in {"", "rossi"} : SetSearchQuery(text)
    \/ \E value \in TypeFilters : SetTypeFilter(value)

SpecFilter == InitFilter /\ [][NextFilter]_vars

(***************************************************************************)
(* SpecImplants: the implants tab of the batch dialog at one site, with up *)
(* to MaxRows rows and MaxSearches searches unanswered at once.            *)
(***************************************************************************)
InitImplants == Session(7, Scope({"implants"}, {}, {}, 0, 0, 0), {}, <<>>)

NextImplants ==
    \/ \E i \in 1..MaxFetches : i <= Len(pzFetches) /\ FetchAllPatientsOk(i)
    \/ \E i \in 1..MaxFetches, code \in {"401", "ERR_NETWORK", "500"} :
          i <= Len(pzFetches) /\ FetchAllPatientsFail(i, code)
    \/ OpenBatchDialog
    \/ DismissBatchDialog
    \/ \E tab \in {"pazienti", "impianti"} : SetBatchTab(tab)
    \/ CancelBatchImplants
    \/ addBatchImplantRow
    \/ \E index \in 1..MaxRows : removeBatchImplantRow(index)
    \/ \E query \in PiccQueries, index \in 1..MaxRows : searchPiccPatients(query, index)
    \/ \E i \in 1..MaxSearches : PiccSearchOk(i)
    \/ \E i \in 1..MaxSearches : PiccSearchFail(i)
    \/ \E patient \in piccPatientResults, index \in 1..MaxRows :
          selectPiccPatient(patient, index)
    \/ \E index \in 1..MaxRows : ClearImplantPatient(index)

SpecImplants == InitImplants /\ [][NextImplants]_vars

(***************************************************************************)
(* SpecBatchCreate: the patients tab of the batch dialog at one site, with *)
(* up to MaxRows rows and one request unanswered at a time.                *)
(***************************************************************************)
InitBatchCreate == Session(7, Scope({"batchCreate"}, {}, {}, 1, 0, 0), {}, <<>>)

BatchPatientEdits ==
    \/ \E index \in 1..MaxRows : updateBatchPatient(index, "cognome", "Rossi")
    \/ \E index \in 1..MaxRows, value \in {"", "Ada"} :
          updateBatchPatient(index, "nome", value)
    \/ \E index \in 1..MaxRows, value \in {"", "picc"} :
          updateBatchPatient(index, "tipo_impianto", value)
    \/ \E index \in 1..MaxRows :
          updateBatchPatient(index, "data_inserimento_impianto", "2018-12-20")
    \/ \E index \in 1..MaxRows, value \in {"PICC", "MED"} :
          SetBatchPatientTipo(index, value)

NextBatchCreate ==
    \/ \E i \in 1..MaxFetches : i <= Len(pzFetches) /\ FetchAllPatientsOk(i)
    \/ OpenBatchDialog
    \/ DismissBatchDialog
    \/ BatchPatientEdits
    \/ addBatchPatientRow
    \/ \E index \in 1..MaxRows : removeBatchPatientRow(index)
    \/ CancelBatchPatients
    \/ handleBatchCreate
    \/ \E i \in 1..MaxMutations : BatchCreateOk(i)
    \/ \E i \in 1..MaxMutations, detail \in Details : BatchCreateFail(i, detail)

SpecBatchCreate == InitBatchCreate /\ [][NextBatchCreate]_vars

\* C27: while the batch status dialog is open the patients it lists are the
\* patients whose ids the request carries: one name per id of selectedPatients,
\* whatever the search text and the type filter have become since the selection.
C27_DialogListsSelection ==
    batchStatusDialogOpen =>
        /\ { p.id : p \in { q \in filteredPatients : q.id \in selectedPatients } }
              = selectedPatients
        /\ Cardinality(getSelectedPatientNames) = Cardinality(selectedPatients)

(***************************************************************************)
(* SpecBatches: the batches of a session.  The agenda is opened over the   *)
(* backend of SpecGrid and the user moves between the days and the sites,  *)
(* or the patients page is opened and the user changes the site and the    *)
(* status of patients.                                                     *)
(***************************************************************************)
InitBatches ==
    \/ \E day \in {5, 7} :
          Session(day, Scope({}, {}, {}, 0, 0, 0), GridAppointments, GridClosedSlots)
    \/ Session(7, Scope({"pazienti"}, {}, {}, 1, 0, 0), {}, <<>>)

NextBatches ==
    \/ Fetching
    \/ Navigate
    \/ Site
    \/ PatientStatus

SpecBatches == InitBatches /\ [][NextBatches]_vars

(***************************************************************************)
(* SpecRequests: the requests of a session.  The page opens on a Saturday;  *)
(* the user steps to the next day and books, or changes the status of      *)
(* patients on the patients page.                                          *)
(* Every request in flight is answered in the end: its promise resolves or *)
(* rejects.                                                                *)
(***************************************************************************)
\* A response reaches the page: a fetch or a mutating request is settled.
Settling ==
    \/ Fetching
    \/ \E i \in 1..MaxFetches : i <= Len(pzFetches) /\ FetchAllPatientsOk(i)
    \/ \E i \in 1..MaxFetches, code \in {"401", "ERR_NETWORK", "500"} :
          i <= Len(pzFetches) /\ FetchAllPatientsFail(i, code)
    \/ \E i \in 1..MaxMutations : AddAppointmentOk(i) \/ StatusChangeOk(i)
    \/ \E i \in 1..MaxMutations, detail \in Details :
          AddAppointmentFail(i, detail) \/ StatusChangeFail(i, detail)

InitRequests ==
    \E panel \in {"cells", "pazienti"} :
        Session(5, Scope({panel}, {"09:00"}, {"medicazione_semplice"}, 1, 1, 0), {}, <<>>)

NextRequests ==
    \/ Fetching
    \/ goToNextDay
    \/ Grid
    \/ Booking
    \/ PatientStatus

SpecRequests == InitRequests /\ [][NextRequests]_vars /\ WF_vars(Settling)

(***************************************************************************)
(* The claims.                                                             *)
(***************************************************************************)
\* A weekend day or a date of the holiday list.
NonWorking(date) == isWeekend(date) \/ format(date) \in holidays

\* The appointments the snapshot holds for (ora, tipo).
Held(ora, tipo) == Cardinality({a \in appointments : a.ora = ora /\ a.tipo = tipo})

\* The response of fetch i arrives in this step.
Arrived(i) ==
    /\ Len(fetches') <= Len(fetches)
    /\ SubSeq(fetches', 1, Len(fetches) - 1) = RemoveAt(fetches, i)

\* C1: with a backend that stores every POST /appointments, no (date, hour,
\* type) ever holds more than 2 appointments, whatever the user does with the
\* grid and the booking dialog, a second click on the submit button while a
\* POST is unanswered included.
C1_AtMostTwoPerSlot ==
    \A a \in srvAppointments :
        Cardinality({b \in srvAppointments :
                        b.data = a.data /\ b.ora = a.ora /\ b.tipo = a.tipo}) <= 2

\* C2: a click on the cell (ora, tipo) checks non-working day, closed slot and
\* full slot in this order: the booking dialog opens, for (ora, tipo) and with
\* no patient and no procedure selected, exactly when none of the three holds;
\* a closed slot of a working day opens the closures dialog, full or not; a
\* full open slot of a working day raises the notice and changes nothing.
C2_SlotClickOrder ==
    [][\A ora \in TIME_SLOTS, tipo \in TIPI :
          handleSlotClick(ora, tipo) =>
             LET nonWorking == NonWorking(currentDate)
                 closed == \E k \in 1..Len(closedSlots) :
                              /\ closedSlots[k].ora \in {NULL, ora}
                              /\ closedSlots[k].tipo \in {NULL, tipo}
                 full == Held(ora, tipo) >= 2
             IN  /\ dialogOpen' <=> (~nonWorking /\ ~closed /\ ~full)
                 /\ dialogOpen' => /\ selectedSlot' = [ora |-> ora, tipo |-> tipo]
                                   /\ selectedPatient' = NONE
                                   /\ selectedPrestazioni' = {}
                 /\ reopenDialogOpen' <=> (~nonWorking /\ closed)
                 /\ (toast' = "Slot pieno (max 2 pazienti)")
                       <=> (~nonWorking /\ ~closed /\ full)
                 /\ (~nonWorking /\ ~closed /\ full) =>
                       UNCHANGED <<view, snapshots, loading, dialogs, fetches,
                                   mutations, server>>]_vars

\* C2's case: on a working day that has a closed slot and a full slot, a click
\* has opened the booking dialog.
C2_Witness ==
    /\ dialogOpen
    /\ selectedSlot # NONE
    /\ ~NonWorking(currentDate)
    /\ Len(closedSlots) > 0
    /\ \E ora \in TIME_SLOTS, tipo \in TIPI : Held(ora, tipo) >= 2

\* C3: isSlotClosed(ora, tipo) is true exactly when some record of the day has
\* (ora unset or equal) and (tipo unset or equal); so a whole-day record closes
\* every hour and type, and a lone record with ora unset and tipo PICC closes
\* PICC at every hour and leaves MED open.
C3_SlotClosedRule ==
    /\ \A ora \in TIME_SLOTS, tipo \in TIPI :
          isSlotClosed(ora, tipo) <=>
             \E k \in 1..Len(closedSlots) :
                /\ closedSlots[k].ora = NULL \/ closedSlots[k].ora = ora
                /\ closedSlots[k].tipo = NULL \/ closedSlots[k].tipo = tipo
    /\ (\E k \in 1..Len(closedSlots) :
           closedSlots[k].ora = NULL /\ closedSlots[k].tipo = NULL)
          => \A ora \in TIME_SLOTS, tipo \in TIPI : isSlotClosed(ora, tipo)
    /\ (Len(closedSlots) = 1 /\ closedSlots[1].ora = NULL /\ closedSlots[1].tipo = "PICC")
          => \A ora \in TIME_SLOTS : isSlotClosed(ora, "PICC") /\ ~isSlotClosed(ora, "MED")

\* C3's case: the day's only record closes PICC at every hour, and a click on
\* a PICC cell has opened the closures dialog.
C3_Witness ==
    /\ Len(closedSlots) = 1
    /\ closedSlots[1].ora = NULL
    /\ closedSlots[1].tipo = "PICC"
    /\ reopenDialogOpen

C5_OneBatchInFlight == Len(fetches) <= 1

\* C6: the re-fetch that follows the success of a mutating request is for the
\* site and the day selected when the response arrives.
C6_RefetchOfSelectedDay ==
    [][\A i \in 1..Len(mutations) :
          (mutations' = RemoveAt(mutations, i) /\ Len(fetches') = Len(fetches) + 1) =>
             LET r == fetches'[Len(fetches')].render
             IN  r.currentDate = currentDate /\ r.ambulatorio = ambulatorio]_vars

\* The notices of the catch branches: the backend's message or the fallback.
ErrorNotices ==
    (Details \ {NULL}) \cup
    { "Errore nell'aggiunta", "Errore nella creazione", "Errore nel cambio stato",
      "Errore nell'aggiornamento", "Errore nella rimozione", "Errore nella chiusura",
      "Errore nella riapertura" }

\* C7: a mutating request that is rejected raises an error notice and changes
\* nothing else: the snapshots, every dialog and its inputs, the selected site
\* and day stay as they are, and no fetch is issued.
C7_RejectionChangesNothing ==
    [][\A i \in 1..Len(mutations) :
          /\ mutations' = RemoveAt(mutations, i) => toast' # ""
          /\ (mutations' = RemoveAt(mutations, i) /\ toast' \in ErrorNotices) =>
                UNCHANGED <<view, snapshots, loading, dialogs, fetches, server>>]_vars

\* C7's case: POST /appointments was rejected and the booking dialog is open
\* with its patient and procedures.
C7_Witness ==
    /\ toast = "Errore nell'aggiunta"
    /\ dialogOpen
    /\ selectedPatient # NONE
    /\ selectedPrestazioni # {}

\* C8: the four snapshots change only in a step that applies the response of a
\* successful fetchData.
C8_SnapshotsOnlyByFetch ==
    [][snapshots' # snapshots => \E i \in 1..Len(fetches) : FetchDataOk(i)]_vars

\* C8's case: POST /appointments has succeeded and the snapshot does not hold
\* the appointment the backend stored.
C8_Witness ==
    /\ toast = "Appuntamento aggiunto"
    /\ srvAppointments # {}
    /\ appointments = {}

\* C9: on a Saturday, a Sunday or a date of the holiday list, a click on a
\* cell changes nothing and sends nothing, whatever the snapshot holds.
C9_NonWorkingDayInert ==
    [][\A ora \in TIME_SLOTS, tipo \in TIPI :
          (NonWorking(currentDate) /\ handleSlotClick(ora, tipo)) =>
             /\ toast' = ""
             /\ UNCHANGED <<view, snapshots, loading, dialogs, fetches, mutations,
                            server>>]_vars

\* C9's case: the grid of a non-working day that has a closure record takes
\* clicks.
C9_Witness ==
    /\ OnGrid
    /\ NonWorking(currentDate)
    /\ Len(closedSlots) > 0

\* C10: when a re-fetch shows that a record for a specific (hour, type) has
\* been reopened, isSlotClosed(hour, type) is false, the other records are
\* those shown before, and isSlotClosed is as before for every other (hour,
\* type).
C10_RoundTrip ==
    [][\A k \in 1..Len(closedSlots) :
          LET rec == closedSlots[k]
          IN  ( /\ rec.ora # NULL
                /\ rec.tipo # NULL
                /\ Len(closedSlots') = Len(closedSlots) - 1
                /\ \A j \in 1..Len(closedSlots') : closedSlots'[j].id # rec.id )
              => /\ ~isSlotClosedIn(closedSlots', rec.ora, rec.tipo)
                 /\ closedSlots' = RemoveAt(closedSlots, k)
                 /\ \A ora \in TIME_SLOTS, tipo \in TIPI :
                       <<ora, tipo>> # <<rec.ora, rec.tipo>> =>
                          (isSlotClosedIn(closedSlots', ora, tipo)
                              <=> isSlotClosedIn(closedSlots, ora, tipo))]_vars

\* C11: getClosedSlotInfo(hour, type) is the first record of the closure
\* snapshot, in the snapshot's order, with (ora unset or equal) and (tipo unset
\* or equal), and undefined when there is none; so it returns a record exactly
\* when isSlotClosed(hour, type) is true.
C11_FirstMatchingRecord ==
    \A ora \in TIME_SLOTS, tipo \in TIPI :
        LET covers(k) == /\ closedSlots[k].ora = NULL \/ closedSlots[k].ora = ora
                         /\ closedSlots[k].tipo = NULL \/ closedSlots[k].tipo = tipo
            info == getClosedSlotInfo(ora, tipo)
        IN  /\ (info # NONE) <=> isSlotClosed(ora, tipo)
            /\ (info = NONE) <=> (\A k \in 1..Len(closedSlots) : ~covers(k))
            /\ \A k \in 1..Len(closedSlots) :
                  (covers(k) /\ \A j \in 1..(k - 1) : ~covers(j)) => info = closedSlots[k]

\* C11's case: the loaded snapshot holds two records that both cover 09:00
\* PICC, the second of them the more specific one, and the first is returned.
C11_Witness ==
    /\ PageShown
    /\ Len(closedSlots) = 2
    /\ closedSlots[1].ora = NULL
    /\ closedSlots[1].tipo = "PICC"
    /\ closedSlots[2].ora = "09:00"
    /\ closedSlots[2].tipo = "PICC"
    /\ getClosedSlotInfo("09:00", "PICC") = closedSlots[1]

\* C12: whenever the grid is shown, the appointments of the cell (hour, type)
\* are the appointments of the snapshot whose date is the selected date, whose
\* ora is hour and whose tipo is type, and they are at most 2.
C12_CellOfSelectedDate ==
    PageShown =>
       \A ora \in TIME_SLOTS, tipo \in TIPI :
          /\ getAppointmentsForSlot(ora, tipo) =
                {a \in appointments :
                    a.data = format(currentDate) /\ a.ora = ora /\ a.tipo = tipo}
          /\ Cardinality(getAppointmentsForSlot(ora, tipo)) <= 2

\* A working day: neither Saturday nor Sunday nor a holiday of its own year.
WorkingDay(d) == ~isWeekend(d) /\ format(d) \notin SrvHolidays(getFullYear(d))

\* C13: goToNextDay selects the nearest working day after the selected date
\* and goToPrevDay the nearest one before it, a working day being neither a
\* weekend day nor a holiday of the year it falls in; no working day is
\* skipped and no other day is selected, across a year change too.
C13_NearestWorkingDay ==
    [][/\ goToNextDay =>
             /\ currentDate' > currentDate
             /\ WorkingDay(currentDate')
             /\ \A d \in DAYS : (currentDate < d /\ d < currentDate') => ~WorkingDay(d)
       /\ goToPrevDay =>
             /\ currentDate' < currentDate
             /\ WorkingDay(currentDate')
             /\ \A d \in DAYS : (currentDate' < d /\ d < currentDate) => ~WorkingDay(d)]_vars

\* C14: for every date d and holiday list H, getNextWorkingDay(d, H) is the
\* earliest date on or after d that is neither a weekend day nor in H; it is d
\* when d is such a date, and applying it to its result returns the result.
\* H ranges over the lists the page passes (the loaded list, the list of a
\* year) and over the whole calendar.
C14_NextWorkingDay ==
    \A d \in DAYS, H \in {holidays, srvHolidays, SrvHolidays(2018), SrvHolidays(2019)} :
        LET r == getNextWorkingDay(d, H)
            free(e) == ~isWeekend(e) /\ format(e) \notin H
        IN  /\ r >= d
            /\ free(r)
            /\ \A e \in d..(r - 1) : ~free(e)
            /\ free(d) => r = d
            /\ getNextWorkingDay(r, H) = r

\* C14's case: the page was opened on Saturday 2018-12-29 with Monday a
\* holiday, and the initial adjustment has moved the selected date past the
\* weekend and the holiday.
C14_Witness ==
    /\ today = 5
    /\ initialLoadDone
    /\ format(7) \in holidays
    /\ currentDate = 8
    /\ currentDate = getNextWorkingDay(today, holidays)

\* The requests in flight whose body carries a status of an appointment.
StatoRequests(reqs) == {k \in 1..Len(reqs) : "stato" \in DOMAIN reqs[k].body}

\* C15: a request that sets an appointment's status is sent only by a click on
\* one of the two status buttons (handleChangeStato), one PUT for the click;
\* the status it carries is effettuato or non_presentato; the click sends it
\* whatever status the appointment has (da_fare, or one set before); and the
\* stored status of an appointment changes only when such a PUT succeeds.
C15_StatusByClickOnly ==
    [][/\ \A k \in StatoRequests(mutations') :
             /\ mutations'[k].kind = "changeStato"
             /\ mutations'[k].body.stato \in {"effettuato", "non_presentato"}
       /\ Cardinality(StatoRequests(mutations')) > Cardinality(StatoRequests(mutations)) =>
             /\ \E newStato \in {"effettuato", "non_presentato"} : handleChangeStato(newStato)
             /\ Len(mutations') = Len(mutations) + 1
       /\ \A newStato \in {"effettuato", "non_presentato"} :
             (handleChangeStato(newStato) /\ editingAppointment # NONE) =>
                mutations' = Append(mutations,
                                Request("changeStato", [id |-> editingAppointment.id,
                                                        stato |-> newStato]))
       /\ (\E a \in srvAppointments, b \in srvAppointments' :
              a.id = b.id /\ a.stato # b.stato) =>
             \E i \in 1..Len(mutations) : ChangeStatoOk(i)]_vars

\* C15's case: an appointment the grid still shows as effettuato has been set
\* to non_presentato by a further click.
C15_Witness ==
    /\ toast = "Segnato come non presentato"
    /\ \E a \in appointments, b \in srvAppointments :
          a.id = b.id /\ a.stato = "effettuato" /\ b.stato = "non_presentato"

\* The metadata the target status of the open dialog requires is missing.
MetadataMissing ==
    \/ newStatus = "dimesso" /\ statusReason = ""
    \/ newStatus = "sospeso" /\ statusNotes = ""

\* C16: every patient status request in flight, single or batch, carries a
\* non-empty discharge reason when its status is dimesso and a non-empty note
\* when it is sospeso; and a click on Conferma with that metadata missing
\* shows an error, sends nothing and leaves the dialogs, their inputs and the
\* selection as they are.
C16_StatusMetadataRequired ==
    [][/\ \A k \in 1..Len(mutations') :
             mutations'[k].kind \in {"statusChange", "batchStatusChange"} =>
                LET body == mutations'[k].body
                IN  /\ body.status = "dimesso" => body.discharge_reason # ""
                    /\ body.status = "sospeso" => body.suspend_notes # ""
       /\ ((handleStatusChange \/ handleBatchStatusChange) /\ MetadataMissing) =>
             /\ toast' \in {"Seleziona una motivazione per la dimissione",
                             "Inserisci una nota per la sospensione"}
             /\ UNCHANGED <<mutations, statusForm, batchForm, deleteForm, allPatients,
                            pzLoading, pzFetches, server>>]_vars

\* C16's case: Conferma was clicked in the batch dialog for a suspension with
\* no note: the error is shown, the dialog is open with its selection and no
\* request is in flight.
C16_Witness ==
    /\ toast = "Inserisci una nota per la sospensione"
    /\ batchStatusDialogOpen
    /\ newStatus = "sospeso"
    /\ selectedPatients # {}
    /\ mutations = <<>>

\* The response that rejects request i, with the message it carries (if any),
\* reaches the handler that sent it.
RejectedWith(i, detail) ==
    \/ AddAppointmentFail(i, detail)
    \/ CreatePatientFail(i, detail)
    \/ ChangeStatoFail(i, detail)
    \/ SavePrestazioniFail(i, detail)
    \/ DeleteAppointmentFail(i, detail)
    \/ CloseAgendaFail(i, detail)
    \/ ReopenSlotFail(i, detail)
    \/ ReopenDayFail(i, detail)
    \/ StatusChangeFail(i, detail)
    \/ BatchStatusChangeFail(i, detail)
    \/ DeletePatientFail(i, detail)

\* C17: when the server rejects a mutating request with a message, the notice
\* is that message; the generic text of the handler is the notice only when
\* the response carries no message.
C17_ServerMessageVerbatim ==
    [][\A i \in 1..Len(mutations), detail \in Details :
          RejectedWith(i, detail) =>
             IF detail = NULL THEN toast' \notin Details /\ toast' # ""
             ELSE toast' = detail]_vars

\* The inputs of a dialog that its validation rejects.
AddAppointmentBlocked == selectedPatient = NONE \/ selectedPrestazioni = {}
SavePrestazioniBlocked == editingAppointment = NONE \/ editPrestazioni = {}
CloseAgendaBlocked == closeMode # "day" /\ Len(closeSlotOre) = 0

\* C18: no POST /appointments is in flight without a patient and a procedure,
\* no PUT of procedures with an empty list, no POST /closed-slots of slot mode
\* without an hour; a click that the validation blocks shows its error, sends
\* nothing and leaves every dialog and its inputs as they were.
C18_ValidationBlocksRequest ==
    [][/\ \A k \in 1..Len(mutations') :
             LET req == mutations'[k]
             IN  /\ req.kind = "addAppointment" =>
                        req.body.patient_id \in Nat /\ req.body.prestazioni # {}
                 /\ req.kind = "savePrestazioni" => req.body.prestazioni # {}
                 /\ req.kind = "closeAgenda" =>
                        (req.body.closeMode # "day" => Len(req.body.ore) > 0)
       /\ \/ handleAddAppointment /\ AddAppointmentBlocked
          \/ handleSavePrestazioni /\ SavePrestazioniBlocked
          \/ handleCloseAgenda /\ CloseAgendaBlocked
          => /\ toast' \in {"Seleziona un paziente", "Seleziona almeno una prestazione",
                             "Seleziona almeno un orario"}
             /\ UNCHANGED <<mutations, fetches, dialogs, view, snapshots, server>>]_vars

\* The edit dialog with every procedure unticked, after a blocked click on
\* "Salva Prestazioni".
C18_Witness ==
    /\ editDialogOpen
    /\ editingAppointment # NONE
    /\ editPrestazioni = {}
    /\ toast = "Seleziona almeno una prestazione"
    /\ mutations = <<>>

\* C19: when a fetch fails with an error that is neither HTTP 401 nor a network
\* error, no notice is raised and the grid is empty afterwards: no cell holds
\* an appointment and no cell is closed.
C19_FailedFetchShowsEmpty ==
    [][\A i \in 1..Len(fetches) :
          FetchDataFail(i, "500") =>
             /\ toast' = ""
             /\ \A ora \in TIME_SLOTS, tipo \in TIPI :
                   /\ getAppointmentsForSlot(ora, tipo)' = {}
                   /\ ~isSlotClosed(ora, tipo)']_vars

\* Nothing is in flight and the page on screen does not show its loading state.
Quiescent ==
    /\ fetches = <<>>
    /\ pzFetches = <<>>
    /\ mutations = <<>>
    /\ IF PazientiMounted THEN ~pzLoading ELSE ~loading

\* A step that settles a request sends none, but for the one fetch that
\* follows the response of a fetch sent before the first successful one.
NoRetry ==
    /\ \A i \in 1..Len(fetches), code \in {"401", "ERR_NETWORK", "500"} :
          FetchDataFail(i, code) =>
             fetches' = RemoveAt(fetches, i) /\ UNCHANGED <<mutations, pzFetches>>
    /\ \A i \in 1..Len(pzFetches), code \in {"401", "ERR_NETWORK", "500"} :
          FetchAllPatientsFail(i, code) =>
             pzFetches' = RemoveAt(pzFetches, i) /\ UNCHANGED <<mutations, fetches>>
    /\ \A i \in 1..Len(mutations), detail \in Details :
          RejectedWith(i, detail) =>
             mutations' = RemoveAt(mutations, i) /\ UNCHANGED <<fetches, pzFetches>>
    /\ \A i \in 1..Len(fetches) :
          FetchDataOk(i) =>
             /\ UNCHANGED <<mutations, pzFetches>>
             /\ \/ fetches' = RemoveAt(fetches, i)
                \/ /\ ~fetches[i].render.initialLoadDone
                   /\ \E follow \in {FetchCall(Render(ambulatorio', currentDate', TRUE), NONE)} :
                         fetches' = Append(RemoveAt(fetches, i), follow)

C21_AdjustmentOnlyBeforeUserChoice ==
    [][\A i \in 1..Len(fetches) :
          (FetchDataOk(i) /\ currentDate # today) => currentDate' = currentDate]_vars

\* The four snapshots are the initial ones or the answers to one batch: the
\* requests of one site and one date.
OneBatch ==
    \/ /\ appointments = {}
       /\ patients = {}
       /\ holidays = {}
       /\ closedSlots = <<>>
    \/ \E amb \in SITES, d \in DAYS :
          /\ appointments = SrvGetAppointments(amb, format(d))
          /\ patients = SrvGetPatients(amb)
          /\ holidays = SrvHolidays(getFullYear(d))
          /\ closedSlots = SrvGetClosedSlots(amb, format(d))

\* The three lists of the patients page are the answers to one batch: the
\* patients of one site, each in the list of its status and in no other.
OnePatientBatch ==
    \E amb \in SITES :
       /\ \A status \in STATUSES : \A p \in allPatients[status] :
             p.ambulatorio = amb /\ p.status = status
       /\ \A s1, s2 \in STATUSES :
             s1 # s2 => {p.id : p \in allPatients[s1]} \cap {p.id : p \in allPatients[s2]} = {}

\* Only the response of a whole batch replaces snapshots.
ReplacedByBatch ==
    /\ snapshots' # snapshots => \E i \in 1..Len(fetches) : FetchDataOk(i)
    /\ allPatients' # allPatients => \E i \in 1..Len(pzFetches) : FetchAllPatientsOk(i)
    /\ \A i \in 1..Len(fetches), code \in {"401", "ERR_NETWORK", "500"} :
          FetchDataFail(i, code) => UNCHANGED <<snapshots, allPatients>>
    /\ \A i \in 1..Len(pzFetches), code \in {"401", "ERR_NETWORK", "500"} :
          FetchAllPatientsFail(i, code) => UNCHANGED <<snapshots, allPatients>>

PrestazioniOf(tipo) == IF tipo = "PICC" THEN PRESTAZIONI_PICC ELSE PRESTAZIONI_MED

\* C23: the POST /appointments that handleAddAppointment sends is for the slot
\* of the last slot click, carries a patient of the slot's type or of type
\* PICC_MED, and a non-empty procedure list out of the list of the slot's type.
C23_BookingMatchesSlot ==
    [][(handleAddAppointment /\ Len(mutations') > Len(mutations)) =>
          LET body == mutations'[Len(mutations')].body
          IN  /\ body.ora = selectedSlot.ora
              /\ body.tipo = selectedSlot.tipo
              /\ body.patient_id = selectedPatient.id
              /\ selectedPatient.tipo \in {body.tipo, "PICC_MED"}
              /\ body.prestazioni # {}
              /\ body.prestazioni \subseteq PrestazioniOf(body.tipo)]_vars

\* C24: every hour of a slot-mode closure request is, in the snapshot of the
\* click on the confirm button, not yet closed for the type the request closes;
\* a request for both types closes no hour already closed for PICC or for MED.
C24_ClosesOnlyOpenHours ==
    [][(handleCloseAgenda /\ Len(mutations') > Len(mutations) /\ closeMode # "day") =>
          LET body == mutations'[Len(mutations')].body
          IN  \A k \in 1..Len(body.ore) :
                 \A tipo \in (IF body.tipo = NULL THEN TIPI ELSE {body.tipo}) :
                    ~isSlotClosed(body.ore[k], tipo)]_vars

\* C25: a click on a chip with no timer running starts the chip's timer and
\* does nothing else; a second click on the same chip while its timer runs
\* cancels the timer and navigates to the patient's folder, and no dialog
\* opens; a click on another chip while a timer runs is a single click of
\* its own and navigates nowhere; the timer that runs out opens the edit
\* dialog of the appointment clicked.
C25_SingleVersusDoubleClick ==
    [][/\ \A apt \in appointments :
             handlePatientChipClick(apt) =>
                /\ UNCHANGED editForm
                /\ IF clickTimerRef # NONE /\ clickTimerRef.id = apt.id
                   THEN /\ location' = PatientFolder(apt.patient_id)
                        /\ clickTimerRef' = NONE
                   ELSE /\ location' = location
                        /\ clickTimerRef' # NONE
       /\ ClickTimerFires =>
             /\ editDialogOpen'
             /\ editingAppointment' = clickTimerRef
             /\ location' = location]_vars

\* C26: the selection is empty outside selection mode, and every selected id
\* is the id of a patient in the list of the active tab.
C26_SelectionWithinActiveTab ==
    /\ ~selectionMode => selectedPatients = {}
    /\ selectedPatients \subseteq {p.id : p \in allPatients[activeTab]}
\* C28: the results listed under a row of the implants tab are the response to
\* the text that row holds now, a text of two characters or more: never the
\* response to an earlier text, to the text of another row or to a text since
\* shortened, so a patient picked for a row was returned for that row's text.
C28_ResultsAnswerCurrentQuery ==
    \A index \in 1..Len(batchImplants) :
        ResultsShownAt(index) =>
            /\ length(batchImplants[index].patient_name) >= 2
            /\ piccPatientResults =
                  SrvPiccSearch(batchImplants[index].patient_name, ambulatorio)

\* The implant fields of every row whose type is not PICC or PICC_MED are empty.
ImplantFieldsOnlyForPicc ==
    \A index \in 1..Len(batchPatients) :
        batchPatients[index].tipo \notin PiccTypes =>
            /\ batchPatients[index].tipo_impianto = ""
            /\ batchPatients[index].data_inserimento_impianto = ""

\* A request of handleBatchCreate carries at least one patient, every patient
\* with a name, a surname and a type, and no implant field for a MED patient.
BatchCreateRequestsComplete ==
    \A i \in 1..Len(mutations) :
        mutations[i].kind = "batchCreate" =>
            /\ Len(mutations[i].body.patients) >= 1
            /\ \A k \in 1..Len(mutations[i].body.patients) :
                  LET sent == mutations[i].body.patients[k]
                  IN  /\ ~Falsy(sent.nome) /\ ~Falsy(sent.cognome) /\ ~Falsy(sent.tipo)
                      /\ sent.tipo \notin PiccTypes =>
                            DOMAIN sent \cap {"tipo_impianto", "data_inserimento_impianto"}
                              = {}

\* "Crea" sends the rows that are complete, in their order, and nothing when
\* no row is complete.
SendsCompleteRows ==
    handleBatchCreate =>
        IF \E index \in 1..Len(batchPatients) :
              /\ batchPatients[index].nome # "" /\ batchPatients[index].cognome # ""
              /\ batchPatients[index].tipo # ""
        THEN /\ Len(mutations') = Len(mutations) + 1
             /\ Len(mutations'[Len(mutations')].body.patients) =
                  Cardinality({index \in 1..Len(batchPatients) :
                      /\ batchPatients[index].nome # "" /\ batchPatients[index].cognome # ""
                      /\ batchPatients[index].tipo # ""})
        ELSE mutations' = mutations /\ toast' = "Inserisci almeno un paziente completo"

\* C29: after any sequence of row edits a row of a type other than PICC and
\* PICC_MED has empty implant fields, so no request of handleBatchCreate carries
\* tipo_impianto or data_inserimento_impianto for a MED patient; a request
\* carries only rows with nome, cognome and tipo filled, and none is sent when
\* no row is complete.
C29_BatchRowsAndRequest ==
    /\ []ImplantFieldsOnlyForPicc
    /\ []BatchCreateRequestsComplete
    /\ [][SendsCompleteRows]_vars

\* A request in flight carries a MED patient without implant fields next to a
\* PICC patient with its implant type, while a MED row is on screen.
C29_Witness ==
    /\ \E i \in 1..Len(mutations) :
          /\ mutations[i].kind = "batchCreate"
          /\ \E k, m \in 1..Len(mutations[i].body.patients) :
                /\ mutations[i].body.patients[k].tipo = "MED"
                /\ mutations[i].body.patients[m].tipo = "PICC"
                /\ "tipo_impianto" \in DOMAIN mutations[i].body.patients[m]
    /\ \E index \in 1..Len(batchPatients) : batchPatients[index].tipo = "MED"

====
